---------------------------- MODULE Spec2Model ----------------------------
(***************************************************************************)
(* Model of the two control loops of the redpanda operator:                *)
(*                                                                         *)
(*   - the PVC unbinder (package pvcunbinder, Controller.Reconcile), which  *)
(*     remediates Pods stuck Pending because of node-bound local storage;  *)
(*   - the Redpanda cluster reconciler (RedpandaReconciler.Reconcile),     *)
(*     which applies the rendered children of a cluster, aggregates        *)
(*     readiness and garbage-collects orphans.                             *)
(*                                                                         *)
(* Every call to the resource store is one step of a pass, so that other   *)
(* actors of the store can interleave with a pass between any two calls.   *)
(* Names are modelled as sequences of tokens, resource versions as         *)
(* integers that every write of an object raises.                          *)
(***************************************************************************)
EXTENDS Integers, Sequences, FiniteSets, TLC

(***************************************************************************)
(* Bounds of the model.                                                    *)
(***************************************************************************)
\* Timeout of the unbinder (Controller.Timeout), in clock ticks.
Timeout == 2
\* The clock stops advancing at MaxNow.
MaxNow == 3
\* Events of the environment of a behaviour: steps of other actors of the
\* store and failed store calls.
MaxEnv == 1

(***************************************************************************)
(* Names.                                                                  *)
(***************************************************************************)
Namespace == "ns"
OtherNamespace == "ns2"
PodName == <<"db-0">>
ClaimA == <<"data-", "db-0">>
ClaimB == <<"logs-", "db-0">>
\* A claim of the Pod whose name does not end with the Pod's name.
ClaimShared == <<"db-0", "-shared">>
ClaimNames == {ClaimA, ClaimB, ClaimShared}
PVNames == {"pv1", "pv2"}

Retain == "Retain"
Delete == "Delete"

HasSuffix(s, suffix) ==
    /\ Len(s) >= Len(suffix)
    /\ SubSeq(s, Len(s) - Len(suffix) + 1, Len(s)) = suffix

(***************************************************************************)
(* State.                                                                  *)
(***************************************************************************)
VARIABLES
    \* ---- the store, as far as the unbinder reads it
    pod,          \* the Pod of the reconciled key
    pvcs,         \* claim name -> PersistentVolumeClaim of the Pod's namespace
    pvols,        \* volume name -> PersistentVolume
    now,          \* the clock
    \* ---- configuration of the unbinder
    AllowRebinding,
    \* ---- one pass of Controller.Reconcile
    pc,           \* position of the pass
    podSnap,      \* the Pod as fetched by the pass
    todo,         \* keys of StsPVCs still to fetch
    pvcByKey,     \* key -> fetched claim; a missing or deleted claim is a nil entry
    pvs,          \* the Volumes kept by the filter, as fetched
    idx,          \* index of the loops over pvs
    pending,      \* keys the loop over pvcByKey has not visited yet
    result,       \* what the pass returned
    \* ---- history of the pass
    writes,       \* the writes the pass has issued, in order
    retainSeen,   \* Volumes ensureRetainPolicy saw or set to Retain in this pass
    fetchMissing, \* keys whose claim the pass did not find when it fetched them
    quiet,        \* no event of the environment since the pass began
    prevEnd,      \* the store at the end of the previous pass, if undisturbed since
    env,          \* events of the environment so far
    failed        \* the store call of the pass that failed, the writes before it, and
                  \* whether an earlier pass returned an error after deleting a claim

remVars == <<pod, pvcs, pvols, now, AllowRebinding, pc, podSnap, todo, pvcByKey,
             pvs, idx, pending, result, writes, retainSeen, fetchMissing, quiet,
             prevEnd, env, failed>>

VARIABLES
    \* ---- the store, as far as RedpandaReconciler reads and writes it
    cluster,      \* the Redpanda object of the reconciled key
    helmRepository, \* the HelmRepository of the cluster
    helmRelease,  \* the HelmRelease of the cluster
    objects,      \* key -> object rendered from the chart, or of another origin
    \* ---- one pass of RedpandaReconciler.Reconcile
    spc,          \* position of the pass
    rp,           \* the Redpanda object the pass holds
    stale,        \* the cluster was written by another actor since rp was read
    redpandaStatefulSets, \* the StatefulSets the pass listed
    consoleDeployments,   \* the Deployments the pass listed
    objs,         \* the rendered objects the apply loop still has to visit
    created,      \* keys the apply loop applied in this pass
    types,        \* kinds the collector still has to list
    toDelete,     \* keys the collector still has to delete
    errs,         \* number of failed deletes of the collector
    sresult,      \* what the pass returned
    \* ---- history of the pass
    hist,         \* what the pass observed and did, for the properties
    faults,       \* failed calls so far
    edits,        \* writes of the user so far
    lastApplied   \* the keys applied by the last pass that returned no error

syncVars == <<cluster, helmRepository, helmRelease, objects, spc, rp, stale,
              redpandaStatefulSets, consoleDeployments, objs, created, types,
              toDelete, errs, sresult, hist, faults, edits, lastApplied>>

VARIABLES
    \* ---- two clusters of one namespace reconciled at the same time
    xobjects,     \* key -> object of the store the two passes share
    xinit,        \* the store before the two passes
    xpc,          \* cluster -> position of its pass
    xobjs,        \* cluster -> rendered objects still to apply
    xcreated,     \* cluster -> keys applied by its pass
    xtoDelete,    \* cluster -> objects its collector still has to delete
    xlog          \* history: the deletes issued, with the owners at the delete

crossVars == <<xobjects, xinit, xpc, xobjs, xcreated, xtoDelete, xlog>>

vars == <<remVars, syncVars, crossVars>>

(***************************************************************************)
(* Objects.                                                                *)
(***************************************************************************)
NoClaimRef == [set |-> FALSE, namespace |-> "", name |-> <<>>]
ClaimRef(ns, name) == [set |-> TRUE, namespace |-> ns, name |-> name]

\* A claim that is not in the store / a nil entry of pvcByKey.
NilPVC == [present |-> FALSE, volumeName |-> "", rv |-> 0]
PVC(volumeName) == [present |-> TRUE, volumeName |-> volumeName, rv |-> 1]

PV(claimRef, reclaim, nodeAffinity, hostPath, local) ==
    [claimRef |-> claimRef, reclaim |-> reclaim, nodeAffinity |-> nodeAffinity,
     hostPath |-> hostPath, local |-> local, rv |-> 1]

StsOwner == [apiVersion |-> "apps/v1", kind |-> "StatefulSet", controller |-> "true"]
StsNotController == [apiVersion |-> "apps/v1", kind |-> "StatefulSet", controller |-> "nil"]
ReplicaSetOwner == [apiVersion |-> "apps/v1", kind |-> "ReplicaSet", controller |-> "true"]

Unschedulable(message, ltt) ==
    [type |-> "PodScheduled", status |-> "False", reason |-> "Unschedulable",
     message |-> message, lastTransitionTime |-> ltt]
Scheduled ==
    [type |-> "PodScheduled", status |-> "True", reason |-> "",
     message |-> <<>>, lastTransitionTime |-> 0]

PVCVolume(claim) == [isClaim |-> TRUE, claimName |-> claim]
OtherVolume == [isClaim |-> FALSE, claimName |-> <<>>]

NoPod ==
    [exists |-> FALSE, rv |-> 0, owners |-> <<>>, phase |-> "", conditions |-> <<>>,
     volumes |-> <<>>, selected |-> TRUE, filter |-> "nil"]

(***************************************************************************)
(* schedulingFailureRE, on messages cut into tokens: a digit or "/" is a   *)
(* token of its own.                                                       *)
(***************************************************************************)
Digits == {"0", "1", "2", "3", "4", "5", "6", "7", "8", "9"}
NodesAvailable == " nodes are available"
VolumeNodeAffinity == "volume node affinity"

RECURSIVE SkipDigits(_, _)
SkipDigits(m, i) ==
    IF i <= Len(m) /\ m[i] \in Digits THEN SkipDigits(m, i + 1) ELSE i

\* ^0/[1-9]\d* nodes are available
MatchesNoNodes(m) ==
    /\ Len(m) >= 4
    /\ m[1] = "0"
    /\ m[2] = "/"
    /\ m[3] \in Digits \ {"0"}
    /\ LET j == SkipDigits(m, 4) IN j <= Len(m) /\ m[j] = NodesAvailable

\* The expression that matches every message.
AnyMessage(m) == TRUE

schedulingFailureRE(m) ==
    \/ MatchesNoNodes(m)
    \/ \E i \in 1..Len(m) : m[i] = VolumeNodeAffinity

(***************************************************************************)
(* pvcUnbinderPredicate, ShouldRemediate, StsPVCs.                         *)
(***************************************************************************)
\* The predicate that lets every Pod through.
AnyPod(p) == TRUE

pvcUnbinderPredicate(p) ==
    LET stsManaged == \E i \in 1..Len(p.owners) :
                          /\ p.owners[i].apiVersion = "apps/v1"
                          /\ p.owners[i].kind = "StatefulSet"
                          /\ p.owners[i].controller = "true"
        isPending == p.phase = "Pending"
    IN stsManaged /\ isPending

IsUnschedulable(cond) ==
    cond.type = "PodScheduled" /\ cond.status = "False" /\ cond.reason = "Unschedulable"

\* slices.IndexFunc: the first index whose condition matches, 0 for none.
RECURSIVE IndexOfUnschedulable(_, _)
IndexOfUnschedulable(conds, i) ==
    IF i > Len(conds) THEN 0
    ELSE IF IsUnschedulable(conds[i]) THEN i
    ELSE IndexOfUnschedulable(conds, i + 1)

No == [ok |-> FALSE, delay |-> 0]

\* The remaining time that is always over.
NoDelta(t, ltt) == 0

\* Lines 377: Timeout - time.Since(cond.LastTransitionTime.Time).
delta(t, ltt) == Timeout - (t - ltt)

ShouldRemediate(p, t) ==
    IF ~p.selected THEN No
    ELSE IF p.filter \in {"err", "drop"} THEN No
    ELSE LET i == IndexOfUnschedulable(p.conditions, 1) IN
         IF i = 0 \/ ~pvcUnbinderPredicate(p) THEN No
         ELSE IF ~schedulingFailureRE(p.conditions[i].message) THEN No
         ELSE LET d == delta(t, p.conditions[i].lastTransitionTime) IN
              IF d > 0 THEN [ok |-> TRUE, delay |-> d]
              ELSE [ok |-> TRUE, delay |-> 0]

RECURSIVE StsPVCsFrom(_, _)
StsPVCsFrom(volumes, i) ==
    IF i > Len(volumes) THEN <<>>
    ELSE LET vol == volumes[i] IN
         IF ~vol.isClaim THEN StsPVCsFrom(volumes, i + 1)
         ELSE IF ~HasSuffix(vol.claimName, PodName) THEN StsPVCsFrom(volumes, i + 1)
         ELSE <<vol.claimName>> \o StsPVCsFrom(volumes, i + 1)

StsPVCs(p) == StsPVCsFrom(p.volumes, 1)


(***************************************************************************)
(* Results of a pass and bookkeeping shared by its steps.                  *)
(***************************************************************************)
Ok == [err |-> "", requeue |-> FALSE, requeueAfter |-> 0]
Err(e) == [err |-> e, requeue |-> FALSE, requeueAfter |-> 0]
NoResult == [err |-> "none", requeue |-> FALSE, requeueAfter |-> 0]

NoStore ==
    [valid |-> FALSE, pod |-> NoPod, pvcs |-> [c \in ClaimNames |-> NilPVC],
     pvols |-> [v \in PVNames |-> PV(NoClaimRef, Delete, FALSE, FALSE, FALSE)],
     nwrites |-> 0, waiting |-> FALSE]
Store ==
    [valid |-> TRUE, pod |-> pod, pvcs |-> pvcs, pvols |-> pvols,
     nwrites |-> Len(writes), waiting |-> result.requeueAfter > 0]

Write(op, obj) == [op |-> op, obj |-> obj, retained |-> FALSE, liveReclaim |-> ""]

\* An event of the environment: it disturbs the pass under way and the
\* comparison with the pass before it.
Disturb ==
    /\ env < MaxEnv
    /\ env' = env + 1
    /\ prevEnd' = NoStore

Undisturbed == UNCHANGED <<env, quiet, prevEnd, failed>>

NotFailed == [call |-> "", nwrites |-> 0, earlier |-> FALSE]

\* The pass returns res.
Return(res) ==
    /\ pc' = "done"
    /\ result' = res

\* A failing store call that the pass ignores.
Swallows(call) ==
    /\ Disturb
    /\ quiet' = FALSE
    /\ failed' = [failed EXCEPT !.call = call, !.nwrites = Len(writes)]
    /\ UNCHANGED <<pc, result>>

\* A store call fails with an error that is not not-found: the pass returns it.
Fails(call) ==
    /\ Disturb
    /\ quiet' = FALSE
    /\ failed' = [failed EXCEPT !.call = call, !.nwrites = Len(writes)]
    /\ Return(Err("transient"))

RemoveKey(m, key) == [k \in DOMAIN m \ {key} |-> m[k]]
\* The map that drops the key of a claim that was not found.
DropMissing(m, key, val) ==
    IF val.present THEN [k \in DOMAIN m \cup {key} |-> IF k = key THEN val ELSE m[k]] ELSE m

PutKey(m, key, val) == [k \in DOMAIN m \cup {key} |-> IF k = key THEN val ELSE m[k]]
EmptyMap == [k \in {} |-> NilPVC]

SeqOfSet(S) == {q \in [1..Cardinality(S) -> S] : \A a, b \in DOMAIN q : q[a] = q[b] => a = b}

(***************************************************************************)
(* Controller.Reconcile: fetch the Pod, decide, fetch the candidate claims. *)
(***************************************************************************)
\* Where the pass goes after a step that leaves it at position p with the
\* Volumes kept vs and the loop index i: loops over nothing are passed over.
\* The order with the claimRef clears ahead of the claim deletes.
ClearsFirst(p, vs, i) ==
    IF p = "retain" /\ i = 1 /\ Len(vs) > 0 THEN "recycle"
    ELSE IF i > Len(vs) THEN "deletePVC"
    ELSE p

Advance(p, vs, i) ==
    IF p = "retain" /\ i > Len(vs) THEN "deletePVC"
    ELSE IF p = "recycle" /\ i > Len(vs) THEN "deletePod"
    ELSE p

\* The test that lets a waiting Pod through.
SkipsIneligible(should) == ~should.ok

\* Line 152: !ok || requeueAfter > 0.
Skips(should) == ~should.ok \/ should.delay > 0

GetPod ==
    /\ pc = "idle"
    /\ writes' = <<>>
    /\ retainSeen' = {}
    /\ fetchMissing' = {}
    /\ UNCHANGED <<pod, pvcs, pvols, now, AllowRebinding, pvs, idx, pending>>
    /\ \/ /\ Fails("getPod")
          /\ UNCHANGED <<podSnap, todo, pvcByKey>>
       \/ /\ env' = env /\ prevEnd' = prevEnd /\ quiet' = TRUE
          /\ failed' = [failed EXCEPT !.call = "", !.nwrites = 0]
          /\ LET should == ShouldRemediate(pod, now)
                 act == pod.exists /\ ~Skips(should)
                 keys == StsPVCs(pod)
             IN /\ podSnap' = pod
                /\ pvcByKey' = EmptyMap
                /\ todo' = IF act THEN keys ELSE <<>>
                /\ pc' = IF act /\ keys # <<>> THEN "getPVC" ELSE "done"
                /\ result' = IF ~pod.exists THEN Ok
                             ELSE IF ~act THEN [err |-> "", requeue |-> should.ok,
                                                requeueAfter |-> should.delay]
                             ELSE IF keys = <<>> THEN Ok
                             ELSE NoResult

GetPVC ==
    /\ pc = "getPVC"
    /\ UNCHANGED <<pod, pvcs, pvols, now, AllowRebinding, podSnap, pvs, idx, pending,
                   writes, retainSeen>>
    /\ \/ /\ Fails("getPVC")
          /\ UNCHANGED <<todo, pvcByKey, fetchMissing>>
       \/ /\ Undisturbed
          /\ fetchMissing' = IF pvcs[Head(todo)].present THEN fetchMissing
                             ELSE fetchMissing \cup {Head(todo)}
          /\ pvcByKey' = PutKey(pvcByKey, Head(todo), pvcs[Head(todo)])
          /\ todo' = Tail(todo)
          /\ pc' = IF Tail(todo) # <<>> THEN "getPVC" ELSE "listPVs"
          /\ UNCHANGED result

(***************************************************************************)
(* Lines 179-216: list the Volumes and keep the ones bound to a candidate   *)
(* claim that have a node affinity and local or host-path backing.          *)
(***************************************************************************)
\* The filter without its test of the backing.
NoAffinity(pv) == ~pv.nodeAffinity

\* Line 210.
NotNodeBound(pv) == ~pv.nodeAffinity \/ (~pv.hostPath /\ ~pv.local)

\* Lines 194-206: the Volume's claimRef names a key of the map.
BoundToCandidate(pv, m) ==
    /\ pv.claimRef.set
    /\ pv.claimRef.namespace = Namespace
    /\ pv.claimRef.name \in DOMAIN m

Snapshot(name, pv) ==
    [name |-> name, claimRef |-> pv.claimRef, reclaim |-> pv.reclaim,
     nodeAffinity |-> pv.nodeAffinity, hostPath |-> pv.hostPath,
     local |-> pv.local, rv |-> pv.rv]

\* The loop of lines 191-216 over the listed items, from item i on.
RECURSIVE FilterPVs(_, _, _, _, _)
FilterPVs(items, world, i, m, kept) ==
    IF i > Len(items) THEN [pvs |-> kept, pvcByKey |-> m]
    ELSE LET pv == world[items[i]] IN
         IF ~BoundToCandidate(pv, m) THEN FilterPVs(items, world, i + 1, m, kept)
         ELSE IF NotNodeBound(pv)
              THEN FilterPVs(items, world, i + 1, RemoveKey(m, pv.claimRef.name), kept)
         ELSE FilterPVs(items, world, i + 1, m, Append(kept, Snapshot(items[i], pv)))

ListPVs ==
    /\ pc = "listPVs"
    /\ UNCHANGED <<fetchMissing, pod, pvcs, pvols, now, AllowRebinding, podSnap, todo, writes,
                   retainSeen, result>>
    /\ \/ /\ Fails("listPVs")
          /\ UNCHANGED <<pvcByKey, pvs, idx, pending>>
       \/ /\ Undisturbed
          /\ \E items \in SeqOfSet(PVNames) :
                LET f == FilterPVs(items, pvols, 1, pvcByKey, <<>>) IN
                /\ pvs' = f.pvs
                /\ pvcByKey' = f.pvcByKey
                /\ idx' = 1
                /\ pending' = DOMAIN f.pvcByKey
                /\ pc' = Advance("retain", f.pvs, 1)

(***************************************************************************)
(* Lines 218-223 and ensureRetainPolicy.                                    *)
(***************************************************************************)
\* ensureRetainPolicy without its early return.
AlwaysPatches(pv) == TRUE

\* ensureRetainPolicy that always returns early.
NeverPatches(pv) == FALSE

\* Line 282: the Volume needs the patch.
NeedsRetainPatch(pv) == pv.reclaim # Retain

SetAt(q, i, v) == [q EXCEPT ![i] = v]

\* The precondition that always passes.
NeverStale(live, snapshot) == FALSE

\* Lines 232-235, 270-273 and 288: the precondition of a write fails, the
\* live object is not at the resourceVersion of the snapshot.
Stale(live, snapshot) == live.rv # snapshot.rv

\* A patch that also clears the claimRef.
RetainedAndCleared(pv) == [pv EXCEPT !.reclaim = Retain, !.claimRef = NoClaimRef, !.rv = @ + 1]

\* Lines 286-293: the Volume after the patch of its reclaim policy.
Retained(pv) == [pv EXCEPT !.reclaim = Retain, !.rv = @ + 1]

EnsureRetain ==
    /\ pc = "retain"
    /\ UNCHANGED <<fetchMissing, pod, pvcs, now, AllowRebinding, podSnap, todo, pvcByKey, pending>>
    /\ LET pv == pvs[idx] IN
       IF ~NeedsRetainPatch(pv)
       THEN /\ Undisturbed
            /\ retainSeen' = retainSeen \cup {pv.name}
            /\ idx' = idx + 1
            /\ pc' = Advance("retain", pvs, idx + 1)
            /\ UNCHANGED <<pvols, pvs, writes, result>>
       ELSE \/ /\ Fails("patchRetain")
               /\ UNCHANGED <<pvols, pvs, idx, writes, retainSeen>>
            \/ /\ Undisturbed
               /\ IF Stale(pvols[pv.name], pv)
                  THEN \* the optimistic lock: the Volume changed since it was listed
                       /\ Return(Err("conflict"))
                       /\ UNCHANGED <<pvols, pvs, idx, writes, retainSeen>>
                  ELSE /\ pvols' = [pvols EXCEPT ![pv.name] = Retained(@)]
                       /\ pvs' = SetAt(pvs, idx, Retained(pv))
                       /\ writes' = Append(writes, Write("patchRetain", pv.name))
                       /\ retainSeen' = retainSeen \cup {pv.name}
                       /\ idx' = idx + 1
                       /\ pc' = Advance("retain", pvs, idx + 1)
                       /\ UNCHANGED result

(***************************************************************************)
(* Lines 225-243: delete the bound claims of the map, in the order the map  *)
(* yields them.                                                             *)
(***************************************************************************)
\* Line 227: the entry is skipped.
SkipsDelete(pvc) == ~pvc.present \/ pvc.volumeName = ""

\* The reclaim policy of the live Volume a claim is bound to.
LiveReclaim(pvc) ==
    IF pvc.volumeName \in PVNames THEN pvols[pvc.volumeName].reclaim ELSE ""

DeletePVC ==
    /\ pc = "deletePVC"
    /\ UNCHANGED <<fetchMissing, pod, pvols, now, AllowRebinding, podSnap, todo, pvs, retainSeen>>
    /\ IF pending = {}
       THEN /\ Undisturbed
            /\ idx' = 1
            /\ pc' = Advance("recycle", pvs, 1)
            /\ UNCHANGED <<pvcs, pvcByKey, pending, writes, result>>
       ELSE \E key \in pending :
            LET pvc == pvcByKey[key] IN
            IF SkipsDelete(pvc)
            THEN /\ Undisturbed
                 /\ pending' = pending \ {key}
                 /\ UNCHANGED <<pvcs, pvcByKey, idx, writes, pc, result>>
            ELSE \/ /\ Fails("deletePVC")
                    /\ UNCHANGED <<pvcs, pvcByKey, pending, idx, writes>>
                 \/ /\ Undisturbed
                    /\ IF ~pvcs[key].present
                       THEN /\ Return(Err("notfound"))
                            /\ UNCHANGED <<pvcs, pvcByKey, pending, idx, writes>>
                       ELSE IF Stale(pvcs[key], pvc)
                       THEN /\ Return(Err("conflict"))
                            /\ UNCHANGED <<pvcs, pvcByKey, pending, idx, writes>>
                       ELSE /\ pvcs' = [pvcs EXCEPT ![key] = NilPVC]
                            /\ pvcByKey' = [pvcByKey EXCEPT ![key] = NilPVC]
                            /\ pending' = pending \ {key}
                            /\ writes' = Append(writes,
                                   [op |-> "deletePVC", obj |-> key,
                                    retained |-> pvc.volumeName \in retainSeen,
                                    liveReclaim |-> LiveReclaim(pvc)])
                            /\ UNCHANGED <<idx, pc, result>>

(***************************************************************************)
(* Lines 245-251 and maybeRecyclePersistentVolume.                          *)
(***************************************************************************)
Recycle ==
    /\ pc = "recycle"
    /\ UNCHANGED <<fetchMissing, pod, pvcs, now, AllowRebinding, podSnap, todo, pvcByKey, pending,
                   retainSeen>>
    /\ LET pv == pvs[idx] IN
       IF ~pv.hostPath /\ ~pv.local
       THEN /\ Undisturbed
            /\ Return(Err("policy"))
            /\ UNCHANGED <<pvols, pvs, idx, writes>>
       ELSE IF ~AllowRebinding \/ ~pv.claimRef.set
       THEN /\ Undisturbed
            /\ idx' = idx + 1
            /\ pc' = Advance("recycle", pvs, idx + 1)
            /\ UNCHANGED <<pvols, pvs, writes, result>>
       ELSE \/ /\ Fails("clearClaimRef")
               /\ UNCHANGED <<pvols, pvs, idx, writes>>
            \/ /\ Undisturbed
               /\ pvols' = [pvols EXCEPT ![pv.name].claimRef = NoClaimRef,
                                          ![pv.name].rv = @ + 1]
               /\ pvs' = SetAt(pvs, idx, [pv EXCEPT !.claimRef = NoClaimRef,
                                                   !.rv = pvols[pv.name].rv + 1])
               /\ writes' = Append(writes, Write("clearClaimRef", pv.name))
               /\ idx' = idx + 1
               /\ pc' = Advance("recycle", pvs, idx + 1)
               /\ UNCHANGED result

(***************************************************************************)
(* Lines 253-278: delete the Pod if a claim of the map is missing.          *)
(***************************************************************************)
\* The Pod delete without its guard.
AlwaysMissing(m) == TRUE

\* The test that never finds a claim missing.
NeverMissing(m) == FALSE

\* Lines 253-259.
missingPVCs(m) == \E key \in DOMAIN m : ~m[key].present

DeletePod ==
    /\ pc = "deletePod"
    /\ UNCHANGED <<fetchMissing, pvcs, pvols, now, AllowRebinding, podSnap, todo, pvcByKey, pvs, idx,
                   pending, retainSeen>>
    /\ IF ~missingPVCs(pvcByKey)
       THEN /\ Undisturbed
            /\ Return(Ok)
            /\ UNCHANGED <<pod, writes>>
       ELSE \/ /\ Fails("deletePod")
               /\ UNCHANGED <<pod, writes>>
            \/ /\ Undisturbed
               /\ IF ~pod.exists
                  THEN /\ Return(Err("notfound"))
                       /\ UNCHANGED <<pod, writes>>
                  ELSE IF Stale(pod, podSnap)
                  THEN /\ Return(Err("conflict"))
                       /\ UNCHANGED <<pod, writes>>
                  ELSE /\ pod' = NoPod
                       /\ writes' = Append(writes, Write("deletePod", PodName))
                       /\ Return(Ok)

(***************************************************************************)
(* The driver takes the result of the pass; the next pass starts afresh.    *)
(***************************************************************************)
Done ==
    /\ pc = "done"
    /\ pc' = "idle"
    /\ prevEnd' = IF quiet THEN Store ELSE NoStore
    /\ podSnap' = NoPod
    /\ todo' = <<>>
    /\ pvcByKey' = EmptyMap
    /\ pvs' = <<>>
    /\ idx' = 1
    /\ pending' = {}
    /\ result' = NoResult
    /\ writes' = <<>>
    /\ retainSeen' = {}
    /\ fetchMissing' = {}
    /\ quiet' = TRUE
    /\ failed' = [call |-> "", nwrites |-> 0,
                  earlier |-> failed.earlier \/ (/\ result.err # ""
                                                   /\ pod.exists
                                                   /\ \E i \in DOMAIN writes :
                                                         writes[i].op = "deletePVC")]
    /\ UNCHANGED <<pod, pvcs, pvols, now, AllowRebinding, env>>


(***************************************************************************)
(* The environment: the clock and the other actors of the store.            *)
(***************************************************************************)
\* The clock advances between passes (a pass reads it once, in
\* ShouldRemediate). A pass that was waiting for the timeout may act next time.
Tick ==
    /\ pc = "idle"
    /\ now < MaxNow
    /\ now' = now + 1
    /\ prevEnd' = IF prevEnd.waiting THEN NoStore ELSE prevEnd
    /\ UNCHANGED <<fetchMissing, pod, pvcs, pvols, AllowRebinding, pc, podSnap, todo, pvcByKey, pvs,
                   idx, pending, result, writes, retainSeen, quiet, env, failed>>

passVars == <<pc, podSnap, todo, pvcByKey, pvs, idx, pending, result, writes, retainSeen,
              fetchMissing, failed>>

\* Another actor changes the reclaim policy of a Volume.
ExtSetReclaim ==
    /\ Disturb
    /\ quiet' = (pc = "idle")
    /\ \E v \in PVNames, policy \in {Retain, Delete} :
          /\ pvols[v].reclaim # policy
          /\ pvols' = [pvols EXCEPT ![v].reclaim = policy, ![v].rv = @ + 1]
    /\ UNCHANGED <<pod, pvcs, now, AllowRebinding>>
    /\ UNCHANGED passVars

\* The scheduler places the Pod.
ExtPodScheduled ==
    /\ Disturb
    /\ quiet' = (pc = "idle")
    /\ pod.exists
    /\ pod.phase = "Pending"
    /\ pod' = [pod EXCEPT !.phase = "Running", !.conditions = <<Scheduled>>,
                          !.rv = @ + 1]
    /\ UNCHANGED <<pvcs, pvols, now, AllowRebinding>>
    /\ UNCHANGED passVars

\* Another actor deletes a claim.
ExtDeletePVC ==
    /\ Disturb
    /\ quiet' = (pc = "idle")
    /\ \E c \in ClaimNames :
          /\ pvcs[c].present
          /\ pvcs' = [pvcs EXCEPT ![c] = NilPVC]
    /\ UNCHANGED <<pod, pvols, now, AllowRebinding>>
    /\ UNCHANGED passVars

\* Another actor writes a candidate claim: its resourceVersion moves on. A
\* write before the pass has read the claim is read with it; the write is
\* taken once the pass holds its snapshot and has yet to delete the claim.
ExtUpdatePVC ==
    /\ pc \in {"listPVs", "retain", "deletePVC"}
    /\ Disturb
    /\ quiet' = FALSE
    /\ \E c \in {ClaimA, ClaimB} :
          /\ pvcs[c].present
          /\ pvcs' = [pvcs EXCEPT ![c].rv = @ + 1]
    /\ UNCHANGED <<pod, pvols, now, AllowRebinding>>
    /\ UNCHANGED passVars

(***************************************************************************)
(* Initial states: the store as the pass may find it.                       *)
(***************************************************************************)
MsgNoNodes == <<"0", "/", "3", NodesAvailable, ": 3 node(s) had ", VolumeNodeAffinity, " conflict">>
MsgManyNodes == <<"0", "/", "1", "0", NodesAvailable>>
MsgAffinityOnly == <<"1 node(s) had ", VolumeNodeAffinity, " conflict">>
MsgZeroNodes == <<"0", "/", "0", NodesAvailable>>
MsgSomeNodes == <<"1", "/", "3", NodesAvailable>>
MsgNotAnchored == <<"warning: ", "0", "/", "3", NodesAvailable>>
MsgTaint == <<"0", "/", "0", "3", NodesAvailable, ": untolerated taint">>

Volumes == <<PVCVolume(ClaimA), OtherVolume, PVCVolume(ClaimShared), PVCVolume(ClaimB)>>

StuckPod(message) ==
    [exists |-> TRUE, rv |-> 1, owners |-> <<StsOwner>>, phase |-> "Pending",
     conditions |-> <<Unschedulable(message, 0)>>, volumes |-> Volumes,
     selected |-> TRUE, filter |-> "nil"]

\* The Pod the scenario of the specification is about.
DuePod == StuckPod(MsgNoNodes)

OtherPods ==
    {NoPod,
     StuckPod(MsgManyNodes), StuckPod(MsgAffinityOnly), StuckPod(MsgZeroNodes),
     StuckPod(MsgSomeNodes), StuckPod(MsgNotAnchored), StuckPod(MsgTaint),
     [DuePod EXCEPT !.owners = <<ReplicaSetOwner>>],
     [DuePod EXCEPT !.owners = <<StsNotController, ReplicaSetOwner>>],
     [DuePod EXCEPT !.owners = <<>>],
     [DuePod EXCEPT !.phase = "Running"],
     [DuePod EXCEPT !.phase = "Running", !.conditions = <<Scheduled>>],
     [DuePod EXCEPT !.conditions = <<>>],
     [DuePod EXCEPT !.conditions = <<Scheduled, Unschedulable(MsgNoNodes, 0)>>],
     [DuePod EXCEPT !.conditions = <<Unschedulable(MsgTaint, 0), Unschedulable(MsgNoNodes, 0)>>],
     [DuePod EXCEPT !.volumes = <<OtherVolume, PVCVolume(ClaimShared)>>],
     [DuePod EXCEPT !.selected = FALSE],
     [DuePod EXCEPT !.filter = "keep"],
     [DuePod EXCEPT !.filter = "drop"],
     [DuePod EXCEPT !.filter = "err"]}

HostPathPV(claimRef, reclaim) == PV(claimRef, reclaim, TRUE, TRUE, FALSE)
LocalPV(claimRef, reclaim) == PV(claimRef, reclaim, TRUE, FALSE, TRUE)
UnpinnedPV(claimRef, reclaim) == PV(claimRef, reclaim, FALSE, TRUE, FALSE)
NetworkPV(claimRef, reclaim) == PV(claimRef, reclaim, TRUE, FALSE, FALSE)

Policies == {Retain, Delete}
ClaimRefs1 == {NoClaimRef, ClaimRef(Namespace, ClaimA)}
ClaimRefs2 == {ClaimRef(Namespace, ClaimA), ClaimRef(Namespace, ClaimB),
               ClaimRef(OtherNamespace, ClaimA), ClaimRef(Namespace, ClaimShared)}

InitPV1 == {HostPathPV(c, r) : c \in ClaimRefs1, r \in Policies}
InitPV2 ==
    UNION {{LocalPV(c, r), UnpinnedPV(c, r), NetworkPV(c, r)} : c \in ClaimRefs2, r \in Policies}
InitClaimA == {NilPVC, PVC(""), PVC("pv1"), PVC("pv2")}
InitClaimB == {NilPVC, PVC("pv2")}

BasePVCs == [c \in ClaimNames |-> IF c = ClaimA THEN PVC("pv1")
                                  ELSE IF c = ClaimB THEN PVC("pv2") ELSE PVC("")]
BasePVs == [v \in PVNames |-> IF v = "pv1" THEN HostPathPV(ClaimRef(Namespace, ClaimA), Delete)
                              ELSE LocalPV(ClaimRef(Namespace, ClaimB), Delete)]

InitStore ==
    \/ /\ pod = DuePod
       /\ \E a \in InitClaimA, b \in InitClaimB :
             pvcs = [c \in ClaimNames |-> IF c = ClaimA THEN a
                                          ELSE IF c = ClaimB THEN b ELSE PVC("")]
       /\ \E v1 \in InitPV1, v2 \in InitPV2 :
             pvols = [v \in PVNames |-> IF v = "pv1" THEN v1 ELSE v2]
    \/ /\ pod \in OtherPods
       /\ pvcs = BasePVCs
       /\ pvols = BasePVs

(***************************************************************************)
(* The cluster reconciler: RedpandaReconciler.                             *)
(***************************************************************************)
MaxFaults == 1
MaxEdits == 1
MaxNodes == 2

FinalizerKey == "operator.redpanda.com/finalizer"
NotManaged == "false"
NoAnnotation == "none"

ClusterUID == "uid-rp"
OtherUID == "uid-other"
ReleaseName == "rp"
PinnedChartVersion == "pinned"

NoCondition == ""
Ready == "Ready"

EmptyStatus ==
    [observedGeneration |-> 0, helmRelease |-> "", helmRepository |-> "",
     helmRepositoryReady |-> FALSE, helmReleaseReady |-> FALSE, condition |-> NoCondition]

\* A Redpanda object. values names what the chart renders from its spec.
Redpanda(managed, decommission, useFlux, chartVersion, generation) ==
    [exists |-> TRUE, deleting |-> FALSE, managed |-> managed,
     decommission |-> decommission, finalizers |-> {}, generation |-> generation,
     useFlux |-> useFlux, chartVersion |-> chartVersion, values |-> "v1",
     status |-> EmptyStatus]

NoRedpanda == [Redpanda(NoAnnotation, FALSE, TRUE, "", 0) EXCEPT !.exists = FALSE]

\* The keys of the objects of the store, and the objects.
Key(kind, namespace, name) == [kind |-> kind, namespace |-> namespace, name |-> name]

SvcA == Key("Service", Namespace, "a")
SvcB == Key("Service", Namespace, "b")
SvcForeign == Key("Service", Namespace, "x")
SvcUnlabelled == Key("Service", Namespace, "y")
SvcOrphan == Key("Service", Namespace, "z")
SvcShared == Key("Service", Namespace, "s")
SvcElsewhere == Key("Service", OtherNamespace, "b")
SvcOtherRelease == Key("Service", Namespace, "r")

Keys == {SvcA, SvcB, SvcForeign, SvcUnlabelled, SvcOrphan, SvcShared, SvcElsewhere,
         SvcOtherRelease}

Object(relName, relNamespace, owners) ==
    [exists |-> TRUE, relName |-> relName, relNamespace |-> relNamespace, owners |-> owners]

NoObject == [exists |-> FALSE, relName |-> "", relNamespace |-> "", owners |-> {}]

\* What the chart renders: kind, the namespace the chart set, name, and
\* whether the object carries the helm.sh/hook annotation.
Rendered(kind, namespace, name, hook) ==
    [kind |-> kind, namespace |-> namespace, name |-> name, hook |-> hook]

RenderError == "render"

Render(values) ==
    IF values = "v1"
    THEN [err |-> "", objs |-> <<Rendered("Service", "", "a", FALSE),
                                 Rendered("Job", Namespace, "post-install", TRUE),
                                 Rendered("Service", OtherNamespace, "b", FALSE)>>]
    ELSE IF values = "v2"
    THEN [err |-> "", objs |-> <<Rendered("Job", Namespace, "post-upgrade", TRUE),
                                 Rendered("Service", Namespace, "a", FALSE),
                                 Rendered("Service", Namespace, "x", FALSE)>>]
    ELSE [err |-> RenderError, objs |-> <<>>]

Values == {"v1", "v2", "v3"}

\* redpanda.Types(): the kinds the chart can render, in the order listed.
\* The store does not know Certificate (cert-manager is not installed).
Types == <<"Certificate", "Service">>
KnownKinds == {"Service", "Job"}

\* A StatefulSet or Deployment: spec.replicas (NilReplicas when unset) and
\* the three counters of its status.
NilReplicas == -1
Workload(replicas, updated, available, ready) ==
    [replicas |-> replicas, updated |-> updated, available |-> available, ready |-> ready]

Deref(replicas) == IF replicas = NilReplicas THEN 0 ELSE replicas

\* The status the flux controllers keep on a HelmRepository or HelmRelease.
FluxStatus(generation, observedGeneration, ready, remediated) ==
    [generation |-> generation, observedGeneration |-> observedGeneration,
     ready |-> ready, remediated |-> remediated]

NoFluxStatus == FluxStatus(0, 0, FALSE, FALSE)

\* The reconciler that takes every cluster for managed.
AlwaysManaged(r) == TRUE

isRedpandaManaged(r) == ~(r.managed # NoAnnotation /\ r.managed = NotManaged)

\* spec.suspend of the HelmRepository and of the HelmRelease.
Suspend(r) == ~r.useFlux

\* reconcileHelmRepository, after the apply: the readiness it records.
HelmRepositoryReady(repo, suspend) ==
    LET isGenerationCurrent == repo.generation = repo.observedGeneration
        isStatusConditionReady == repo.ready
    IN  IF suspend THEN TRUE ELSE isStatusConditionReady /\ isGenerationCurrent

\* The readiness of a release without the Remediated condition.
ReadyConditionOnly(hr, suspend) ==
    IF suspend THEN TRUE ELSE hr.generation = hr.observedGeneration /\ hr.ready

\* reconcileHelmRelease, after the apply: the readiness it records.
HelmReleaseReady(hr, suspend) ==
    LET isGenerationCurrent == hr.generation = hr.observedGeneration
        isStatusConditionReady == hr.ready \/ hr.remediated
    IN  IF suspend THEN TRUE ELSE isGenerationCurrent /\ isStatusConditionReady

\* checkReplicasForList: no item whose counters differ from its total.
NotConverged(item) ==
    LET total == Deref(item.replicas)
    IN  item.updated # total \/ item.available # total \/ item.ready # total

checkReplicasForList(list) == \A i \in 1..Len(list) : ~NotConverged(list[i])

RECURSIVE SumReplicas(_)
SumReplicas(stses) ==
    IF stses = <<>> THEN 0 ELSE Deref(Head(stses).replicas) + SumReplicas(Tail(stses))

NeverDecommission(allNodes, stses) == FALSE

\* needsDecommission, once the health overview reports allNodes brokers.
needsDecommission(allNodes, stses) ==
    LET desiredReplicas == SumReplicas(stses)
    IN  IF allNodes = 0 \/ desiredReplicas = 0 THEN FALSE ELSE allNodes > desiredReplicas

\* v1alpha2.RedpandaReady(rp) and v1alpha2.RedpandaNotReady(rp, reason, msg), as
\* called by reconcile and reconcileDefluxed: the call is what rp records.
Mark(r, condition) == [r EXCEPT !.status.condition = condition]

NoLocalChecks(r, stses, deployments) == ""

\* reconcile, after reconcileHelmRelease returned: the checks it makes
\* before it asks the brokers; "" when every check passed.
LocalChecks(r, stses, deployments) ==
    IF ~r.status.helmReleaseReady THEN "ArtifactFailed"
    ELSE IF Len(stses) = 0 THEN "RedpandaPodsNotReady"
    ELSE IF ~checkReplicasForList(stses) THEN "RedpandaPodsNotReady"
    ELSE IF ~checkReplicasForList(deployments) THEN "ConsolePodsNotReady"
    ELSE ""

\* The apply loop skips the objects that carry a hook annotation.
RECURSIVE SkipHooks(_)
SkipHooks(os) ==
    IF os = <<>> THEN <<>>
    ELSE IF Head(os).hook THEN SkipHooks(Tail(os)) ELSE os

\* The sync without the skip of the collector.
SkipsNothing(r) == FALSE

\* The sync that skips the collector in every pass.
SkipsAlways(r) == TRUE

\* The collector is skipped when the generation was already observed.
SkipsGC(r) == r.generation = r.status.observedGeneration /\ r.generation # 0

AfterApply(r) == IF SkipsGC(r) THEN "getLatest" ELSE "gcList"

\* reconcileDefluxed that goes on after a failed render with nothing to apply.
IgnoresRenderError(r) ==
    IF r.useFlux
    THEN [err |-> "", spc |-> "getLatest", rp |-> r, objs |-> <<>>]
    ELSE IF ~(r.chartVersion = "" \/ r.chartVersion = PinnedChartVersion)
    THEN [err |-> "", spc |-> "getLatest", rp |-> Mark(r, "ChartRefUnsupported"),
          objs |-> <<>>]
    ELSE LET todoObjs == SkipHooks(Render(r.values).objs)
         IN  [err |-> "", spc |-> IF todoObjs = <<>> THEN AfterApply(r) ELSE "apply",
              rp |-> r, objs |-> todoObjs]

\* reconcileDefluxed up to its first store call.
\* reconcileDefluxed that applies nothing for a cluster marked not ready.
NotReadyStops(r) ==
    IF r.useFlux \/ r.status.condition # Ready
    THEN [err |-> "", spc |-> "getLatest", rp |-> r, objs |-> <<>>]
    ELSE IF ~(r.chartVersion = "" \/ r.chartVersion = PinnedChartVersion)
    THEN [err |-> "", spc |-> "getLatest", rp |-> Mark(r, "ChartRefUnsupported"),
          objs |-> <<>>]
    ELSE LET rendered == Render(r.values)
             todoObjs == SkipHooks(rendered.objs)
         IN  IF rendered.err # ""
             THEN [err |-> rendered.err, spc |-> "done", rp |-> r, objs |-> <<>>]
             ELSE [err |-> "", spc |-> IF todoObjs = <<>> THEN AfterApply(r) ELSE "apply",
                   rp |-> r, objs |-> todoObjs]

\* reconcileDefluxed that renders whatever chart version is asked for.
AnyChartVersion(r) ==
    IF r.useFlux
    THEN [err |-> "", spc |-> "getLatest", rp |-> r, objs |-> <<>>]
    ELSE LET rendered == Render(r.values)
             todoObjs == SkipHooks(rendered.objs)
         IN  IF rendered.err # ""
             THEN [err |-> rendered.err, spc |-> "done", rp |-> r, objs |-> <<>>]
             ELSE [err |-> "", spc |-> IF todoObjs = <<>> THEN AfterApply(r) ELSE "apply",
                   rp |-> r, objs |-> todoObjs]

reconcileDefluxed(r) ==
    IF r.useFlux
    THEN [err |-> "", spc |-> "getLatest", rp |-> r, objs |-> <<>>]
    ELSE IF ~(r.chartVersion = "" \/ r.chartVersion = PinnedChartVersion)
    THEN [err |-> "", spc |-> "getLatest", rp |-> Mark(r, "ChartRefUnsupported"),
          objs |-> <<>>]
    ELSE LET rendered == Render(r.values)
             todoObjs == SkipHooks(rendered.objs)
         IN  IF rendered.err # ""
             THEN [err |-> rendered.err, spc |-> "done", rp |-> r, objs |-> <<>>]
             ELSE [err |-> "", spc |-> IF todoObjs = <<>> THEN AfterApply(r) ELSE "apply",
                   rp |-> r, objs |-> todoObjs]

\* ---- history
NothingSeen ==
    [repo |-> NoFluxStatus, repoSeen |-> FALSE, release |-> NoFluxStatus,
     releaseSeen |-> FALSE, suspend |-> FALSE, allNodes |-> 0, healthSeen |-> FALSE]

NoHist ==
    [start |-> 0, readiness |-> FALSE, sync |-> FALSE, patched |-> FALSE,
     quiet |-> TRUE, failed |-> FALSE, seen |-> NothingSeen, gc |-> <<>>, sawAbsent |-> FALSE,
     removed |-> "", releaseAtRemoval |-> FALSE, deleteIssued |-> FALSE,
     unmanaged |-> FALSE]

NoneApplied == [valid |-> FALSE, keys |-> {}]

\* ---- the pass
storeVars == <<cluster, helmRepository, helmRelease, objects>>
loopVars == <<objs, created, types, toDelete, errs>>
listVars == <<redpandaStatefulSets, consoleDeployments>>

SReturn(res) ==
    /\ spc' = "done"
    /\ sresult' = res

\* A call fails with an error that is not not-found: the pass returns it.
SFails ==
    /\ faults < MaxFaults
    /\ faults' = faults + 1
    /\ SReturn(Err("transient"))

\* Reconcile that goes on to the readiness step without the finalizer.
DispatchWithoutFinalizer(r) ==
    IF r.deleting
    THEN IF r.status.helmRelease = ""
         THEN IF FinalizerKey \in r.finalizers THEN "removeFinalizer" ELSE "done"
         ELSE "getRelease"
    ELSE IF ~isRedpandaManaged(r)
    THEN IF FinalizerKey \in r.finalizers THEN "unmanage" ELSE "done"
    ELSE IF r.decommission THEN "done"
    ELSE "listStatefulSets"

\* Where Reconcile goes once it holds the cluster r.
Dispatch(r) ==
    IF r.deleting
    THEN IF r.status.helmRelease = ""
         THEN IF FinalizerKey \in r.finalizers THEN "removeFinalizer" ELSE "done"
         ELSE "getRelease"
    ELSE IF ~isRedpandaManaged(r)
    THEN IF FinalizerKey \in r.finalizers THEN "unmanage" ELSE "done"
    ELSE IF r.decommission THEN "done"
    ELSE IF FinalizerKey \notin r.finalizers THEN "addFinalizer"
    ELSE "listStatefulSets"

\* Reconcile: r.Client.Get and the branches that need no further call.
Get ==
    /\ spc = "idle"
    /\ UNCHANGED <<storeVars, loopVars, listVars, edits, lastApplied>>
    /\ hist' = [NoHist EXCEPT !.start = cluster.status.observedGeneration,
                           !.unmanaged = /\ cluster.exists
                                         /\ ~cluster.deleting
                                         /\ cluster.managed = NotManaged]
    /\ \/ SFails /\ UNCHANGED <<rp, stale>>
       \/ /\ ~cluster.exists
          /\ SReturn(Ok)
          /\ UNCHANGED <<rp, stale, faults>>
       \/ /\ cluster.exists
          /\ rp' = cluster
          /\ stale' = FALSE
          /\ spc' = Dispatch(cluster)
          /\ sresult' = IF Dispatch(cluster) = "done" THEN Ok ELSE NoResult
          /\ UNCHANGED faults

\* r.Client.Update of the cluster without the finalizer: refused when the
\* cluster was written since it was read; a cluster under deletion that
\* loses its last finalizer leaves the store.
WithoutFinalizer(c) ==
    IF c.deleting /\ c.finalizers \ {FinalizerKey} = {}
    THEN NoRedpanda
    ELSE [c EXCEPT !.finalizers = c.finalizers \ {FinalizerKey}]

Update(path) ==
    /\ UNCHANGED <<helmRepository, helmRelease, objects, loopVars, listVars, edits, lastApplied, stale>>
    /\ \/ SFails /\ UNCHANGED <<cluster, rp, hist>>
       \/ /\ stale \/ ~cluster.exists
          /\ SReturn(Err(IF cluster.exists THEN "conflict" ELSE "notfound"))
          /\ UNCHANGED <<cluster, rp, hist, faults>>
       \/ /\ ~stale /\ cluster.exists
          /\ cluster' = WithoutFinalizer(cluster)
          /\ rp' = [rp EXCEPT !.finalizers = rp.finalizers \ {FinalizerKey}]
          /\ hist' = [hist EXCEPT !.removed = path,
                                  !.releaseAtRemoval = helmRelease.exists]
          /\ SReturn(Ok)
          /\ UNCHANGED faults

\* The cluster is not managed and carries the finalizer.
Unmanage ==
    /\ spc = "unmanage"
    /\ Update("unmanaged")

\* reconcileDelete, once deleteHelmRelease returned nil.
RemoveFinalizer ==
    /\ spc = "removeFinalizer"
    /\ Update("delete")

\* r.Client.Patch that registers the finalizer; rp becomes what the store answers.
AddFinalizer ==
    /\ spc = "addFinalizer"
    /\ UNCHANGED <<helmRepository, helmRelease, objects, loopVars, listVars, edits, lastApplied, hist>>
    /\ \/ SFails /\ UNCHANGED <<cluster, rp, stale>>
       \/ /\ ~cluster.exists
          /\ SReturn(Err("notfound"))
          /\ UNCHANGED <<cluster, rp, stale, faults>>
       \/ /\ cluster.exists
          /\ cluster' = [cluster EXCEPT !.finalizers = rp.finalizers \cup {FinalizerKey}]
          /\ rp' = cluster'
          /\ stale' = FALSE
          /\ spc' = "listStatefulSets"
          /\ UNCHANGED <<sresult, faults>>

\* ---- reconcile: readiness
Converged(n) == Workload(n, n, n, n)
StsLists ==
    {<<>>, <<Converged(1)>>, <<Converged(0)>>, <<Workload(NilReplicas, 0, 0, 0)>>,
     <<Workload(2, 1, 2, 2)>>, <<Workload(2, 2, 1, 2)>>, <<Workload(2, 2, 2, 1)>>,
     <<Converged(1), Converged(1)>>, <<Converged(1), Workload(1, 1, 1, 0)>>}
DeploymentLists == {<<>>, <<Converged(1)>>, <<Workload(1, 1, 0, 1)>>}

RepositoryStatuses ==
    {FluxStatus(2, 2, TRUE, FALSE), FluxStatus(2, 1, TRUE, FALSE), FluxStatus(1, 1, FALSE, FALSE)}
ReleaseStatuses ==
    {FluxStatus(2, 2, TRUE, FALSE), FluxStatus(2, 2, FALSE, TRUE), FluxStatus(2, 1, TRUE, TRUE),
     FluxStatus(1, 1, FALSE, FALSE)}

\* Every status a release can show: its generation observed or not, with or
\* without each of the two conditions.
AllReleaseStatuses ==
    {FluxStatus(2, o, r, m) : o \in {1, 2}, r \in BOOLEAN, m \in BOOLEAN}

\* redpandaStatefulSetsForCluster
ListStatefulSets ==
    /\ spc = "listStatefulSets"
    /\ UNCHANGED <<storeVars, loopVars, consoleDeployments, rp, stale, hist, edits, lastApplied>>
    /\ \/ SFails /\ UNCHANGED redpandaStatefulSets
       \/ /\ redpandaStatefulSets' \in StsLists
          /\ spc' = "listDeployments"
          /\ UNCHANGED <<sresult, faults>>

\* consoleDeploymentsForCluster
ListDeployments ==
    /\ spc = "listDeployments"
    /\ UNCHANGED <<storeVars, loopVars, redpandaStatefulSets, rp, stale, hist, edits, lastApplied>>
    /\ \/ SFails /\ UNCHANGED consoleDeployments
       \/ /\ consoleDeployments' \in DeploymentLists
          /\ spc' = "applyRepository"
          /\ UNCHANGED <<sresult, faults>>

\* reconcileHelmRepository and the check of its result.
ApplyRepository ==
    /\ spc = "applyRepository"
    /\ UNCHANGED <<cluster, helmRelease, objects, loopVars, listVars, stale, edits, lastApplied>>
    /\ \/ SFails /\ UNCHANGED <<helmRepository, rp, hist>>
       \/ \E repo \in RepositoryStatuses :
            LET ready == HelmRepositoryReady(repo, Suspend(rp))
                r == [rp EXCEPT !.status.helmRepository = ReleaseName,
                                !.status.helmRepositoryReady = ready]
            IN  /\ helmRepository' = TRUE
                /\ hist' = [hist EXCEPT !.seen.repo = repo, !.seen.repoSeen = TRUE,
                                        !.seen.suspend = Suspend(rp)]
                /\ rp' = IF ready THEN r ELSE Mark(r, "ArtifactFailed")
                /\ spc' = IF ready THEN "applyRelease" ELSE "reconciled"
                /\ UNCHANGED <<sresult, faults>>

\* reconcileHelmRelease and the checks reconcile makes on what it holds, for
\* a release whose status is one of statuses.
ApplyReleaseOf(statuses) ==
    /\ spc = "applyRelease"
    /\ UNCHANGED <<cluster, helmRepository, objects, loopVars, listVars, stale, edits, lastApplied>>
    /\ \/ SFails /\ UNCHANGED <<helmRelease, rp, hist>>
       \/ \E hr \in statuses :
            LET r == [rp EXCEPT !.status.helmRelease = ReleaseName,
                                !.status.helmReleaseReady = HelmReleaseReady(hr, Suspend(rp))]
                reason == LocalChecks(r, redpandaStatefulSets, consoleDeployments)
            IN  /\ helmRelease' = [helmRelease EXCEPT !.exists = TRUE]
                /\ hist' = [hist EXCEPT !.seen.release = hr, !.seen.releaseSeen = TRUE]
                /\ rp' = IF reason = "" THEN r ELSE Mark(r, reason)
                /\ spc' = IF reason = "" THEN "needsDecommission" ELSE "reconciled"
                /\ UNCHANGED <<sresult, faults>>

ApplyRelease == ApplyReleaseOf(ReleaseStatuses)

\* needsDecommission and the mark reconcile ends with.
NeedsDecommission ==
    /\ spc = "needsDecommission"
    /\ UNCHANGED <<storeVars, loopVars, listVars, stale, edits, lastApplied>>
    /\ \/ SFails /\ UNCHANGED <<rp, hist>>
       \/ \E allNodes \in 0..MaxNodes :
            /\ hist' = [hist EXCEPT !.seen.allNodes = allNodes, !.seen.healthSeen = TRUE]
            /\ rp' = IF needsDecommission(allNodes, redpandaStatefulSets)
                     THEN Mark(rp, "RedpandaPodsNotReady")
                     ELSE Mark(rp, Ready)
            /\ spc' = "reconciled"
            /\ UNCHANGED <<sresult, faults>>

\* Reconcile, between reconcile and the first call of reconcileDefluxed.
Reconciled ==
    /\ spc = "reconciled"
    /\ UNCHANGED <<storeVars, created, types, toDelete, errs, stale, edits, lastApplied, faults>>
    /\ LET d == reconcileDefluxed(rp)
       IN  /\ rp' = d.rp
           /\ objs' = d.objs
           /\ redpandaStatefulSets' = <<>>
           /\ consoleDeployments' = <<>>
           /\ hist' = [hist EXCEPT !.readiness = TRUE, !.seen = NothingSeen,
                                   !.sync = d.err = "" /\ d.spc = "getLatest"]
           /\ spc' = d.spc
           /\ sresult' = IF d.err = "" THEN NoResult ELSE Err(d.err)

\* ---- reconcileDefluxed: the apply loop and the collector
isOwned(obj) == ClusterUID \in obj.owners

\* The label selector and namespace of the collector's List.
Listed(key, obj, kind) ==
    /\ obj.exists
    /\ key.kind = kind
    /\ key.namespace = Namespace
    /\ obj.relName = ReleaseName
    /\ obj.relNamespace = Namespace

CollectsAnything(key, obj, applied) == TRUE

\* The collector that keeps nothing for deletion.
CollectsNothing(key, obj, applied) == FALSE

\* The collector without the test against the objects just applied.
CollectsOwned(key, obj, applied) == ClusterUID \in obj.owners

\* The collector keeps a listed object for deletion.
Collects(key, obj, applied) == key \notin applied /\ isOwned(obj)

\* The apply loop that goes on to the collector when r.apply fails.
ApplyGoesOn(err) ==
    /\ spc' = "gcList"
    /\ UNCHANGED sresult

\* The apply loop returns the error of r.apply at once.
ApplyFails(err) == SReturn(Err(err))

\* The apply loop that leaves the namespace the chart set, when it set one.
StampKeepsNamespace(obj) ==
    [kind |-> obj.kind, namespace |-> IF obj.namespace = "" THEN Namespace ELSE obj.namespace,
     name |-> obj.name, hook |-> obj.hook, owners |-> {ClusterUID},
     relName |-> ReleaseName, relNamespace |-> Namespace]

\* The rendered object as the apply loop hands it to r.apply: in the
\* namespace of the cluster, with the cluster as its only owner reference and
\* with the two labels of the release.
Stamp(obj) ==
    [kind |-> obj.kind, namespace |-> Namespace, name |-> obj.name, hook |-> obj.hook,
     owners |-> {ClusterUID}, relName |-> ReleaseName, relNamespace |-> Namespace]

\* r.apply of the next rendered object: a server-side apply as field owner
\* redpanda-operator, which sets the labels and adds the owner reference.
Apply ==
    /\ spc = "apply"
    /\ UNCHANGED <<cluster, helmRepository, helmRelease, listVars, types, toDelete, errs,
                   rp, stale, edits, lastApplied>>
    /\ LET obj == Stamp(Head(objs))
           key == Key(obj.kind, obj.namespace, obj.name)
           rest == SkipHooks(Tail(objs))
           next == IF rest = <<>> THEN AfterApply(rp) ELSE "apply"
       IN  \/ /\ faults < MaxFaults
              /\ faults' = faults + 1
              /\ ApplyFails("transient")
              /\ UNCHANGED <<objects, objs, created, hist>>
           \/ /\ obj.kind \notin KnownKinds
              /\ ApplyFails("nomatch")
              /\ UNCHANGED <<objects, objs, created, hist, faults>>
           \/ /\ obj.kind \in KnownKinds
              /\ objects' = [objects EXCEPT ![key] =
                                Object(obj.relName, obj.relNamespace, @.owners \cup obj.owners)]
              /\ created' = created \cup {key}
              /\ objs' = rest
              /\ spc' = next
              /\ hist' = [hist EXCEPT !.sync = next = "getLatest"]
              /\ UNCHANGED <<sresult, faults>>

\* The error of a List of kind: the store knows no mapping for a kind whose
\* definition is not installed.
ListError(kind) == IF kind \in KnownKinds THEN "" ELSE "nomatch"

\* The collector that takes no error of a List for a no-match error.
NoMatchIsFatal(err) == FALSE

\* apimeta.IsNoMatchError
IsNoMatchError(err) == err = "nomatch"

\* reconcileDefluxGC: the List of the next kind and the selection among its items.
GcList ==
    /\ spc = "gcList"
    /\ UNCHANGED <<storeVars, listVars, objs, created, errs, rp, stale, edits, lastApplied>>
    /\ LET kind == Head(types)
           selected == {k \in Keys : /\ Listed(k, objects[k], kind)
                                     /\ Collects(k, objects[k], created)}
           err == ListError(kind)
       IN  \/ SFails /\ UNCHANGED <<types, toDelete, hist>>
           \/ /\ err # "" /\ ~IsNoMatchError(err)
              /\ SReturn(Err(err))
              /\ UNCHANGED <<types, toDelete, hist, faults>>
           \/ \E items \in SeqOfSet(IF err = "" THEN selected ELSE {}) :
                /\ err = "" \/ IsNoMatchError(err)
                /\ LET all == toDelete \o items
                       next == IF Len(types) > 1 THEN "gcList"
                               ELSE IF all = <<>> THEN "getLatest" ELSE "gcDelete"
                   IN  /\ toDelete' = all
                       /\ types' = Tail(types)
                       /\ spc' = next
                       /\ hist' = [hist EXCEPT !.sync = next = "getLatest"]
                       /\ UNCHANGED <<sresult, faults>>

\* What the history keeps of a delete of the collector.
Collected(key, obj, applied) ==
    [key |-> key, labelled |-> Listed(key, obj, key.kind), owned |-> isOwned(obj),
     applied |-> key \in applied]

JoinNothing(n) == FALSE

\* The join that reports nothing for a single failed delete.
JoinMany(n) == n > 1

\* errors.Join over the failed deletes: nil when there is none.
Join(n) == n > 0

\* reconcileDefluxGC: the Delete of the next object; a failed delete is
\* kept and the loop goes on, the errors are joined at the end.
GcDelete ==
    /\ spc = "gcDelete"
    /\ UNCHANGED <<cluster, helmRepository, helmRelease, listVars, objs, created, types,
                   rp, stale, edits, lastApplied>>
    /\ LET key == Head(toDelete)
           last == Len(toDelete) = 1
           Ends(n, h) ==
               /\ errs' = n
               /\ IF last /\ Join(n)
                  THEN SReturn(Err("gc")) /\ hist' = h
                  ELSE /\ spc' = IF last THEN "getLatest" ELSE "gcDelete"
                       /\ hist' = [h EXCEPT !.sync = last]
                       /\ UNCHANGED sresult
       IN  /\ toDelete' = Tail(toDelete)
           /\ \/ /\ faults < MaxFaults
                 /\ faults' = faults + 1
                 /\ Ends(errs + 1, [hist EXCEPT !.failed = TRUE])
                 /\ UNCHANGED objects
              \/ /\ ~objects[key].exists
                 /\ Ends(errs + 1, [hist EXCEPT !.failed = TRUE])
                 /\ UNCHANGED <<objects, faults>>
              \/ /\ objects[key].exists
                 /\ objects' = [objects EXCEPT ![key] = NoObject]
                 /\ Ends(errs, [hist EXCEPT
                                  !.gc = Append(@, Collected(key, objects[key], created))])
                 /\ UNCHANGED faults

\* ---- the status
\* Reconcile observes the generation; patchRedpandaStatus reads the cluster.
GetLatest ==
    /\ spc = "getLatest"
    /\ UNCHANGED <<storeVars, loopVars, listVars, stale, hist, edits, lastApplied>>
    /\ rp' = [rp EXCEPT !.status.observedGeneration = rp.generation]
    /\ \/ SFails
       \/ /\ ~cluster.exists
          /\ SReturn(Err("notfound"))
          /\ UNCHANGED faults
       \/ /\ cluster.exists
          /\ spc' = "patchStatus"
          /\ UNCHANGED <<sresult, faults>>

\* patchRedpandaStatus: the merge patch of the status subresource.
PatchStatus ==
    /\ spc = "patchStatus"
    /\ UNCHANGED <<helmRepository, helmRelease, objects, loopVars, listVars, rp, stale, edits, lastApplied>>
    /\ \/ SFails /\ UNCHANGED <<cluster, hist>>
       \/ /\ ~cluster.exists
          /\ SReturn(Err("notfound"))
          /\ UNCHANGED <<cluster, hist, faults>>
       \/ /\ cluster.exists
          /\ cluster' = [cluster EXCEPT !.status = rp.status]
          /\ hist' = [hist EXCEPT !.patched = TRUE]
          /\ SReturn(Ok)
          /\ UNCHANGED faults

\* ---- reconcileDelete
NoRelease == [exists |-> FALSE, deleting |-> FALSE]

\* deleteHelmRelease: the Get of the release named by the status.
GetRelease ==
    /\ spc = "getRelease"
    /\ UNCHANGED <<storeVars, loopVars, listVars, stale, edits, lastApplied>>
    /\ \/ SFails /\ UNCHANGED <<rp, hist>>
       \/ /\ ~helmRelease.exists
          /\ rp' = [rp EXCEPT !.status.helmRelease = "", !.status.helmRepository = ""]
          /\ hist' = [hist EXCEPT !.sawAbsent = TRUE]
          /\ IF FinalizerKey \in rp.finalizers
             THEN spc' = "removeFinalizer" /\ UNCHANGED sresult
             ELSE SReturn(Ok)
          /\ UNCHANGED faults
       \/ /\ helmRelease.exists
          /\ spc' = "deleteRelease"
          /\ UNCHANGED <<rp, hist, sresult, faults>>

\* deleteHelmRelease: the foreground Delete, and the wait error.
DeleteRelease ==
    /\ spc = "deleteRelease"
    /\ UNCHANGED <<cluster, helmRepository, objects, loopVars, listVars, rp, stale, edits, lastApplied>>
    /\ \/ SFails /\ UNCHANGED <<helmRelease, hist>>
       \/ /\ ~helmRelease.exists
          /\ SReturn(Err("notfound"))
          /\ UNCHANGED <<helmRelease, hist, faults>>
       \/ /\ helmRelease.exists
          /\ helmRelease' = [helmRelease EXCEPT !.deleting = TRUE]
          /\ hist' = [hist EXCEPT !.deleteIssued = TRUE]
          /\ SReturn(Err("wait for helm release deletion"))
          /\ UNCHANGED faults

\* The pass has returned; the next one starts from the store alone.
SDone ==
    /\ spc = "done"
    /\ spc' = "idle"
    /\ rp' = NoRedpanda
    /\ stale' = FALSE
    /\ redpandaStatefulSets' = <<>>
    /\ consoleDeployments' = <<>>
    /\ objs' = <<>>
    /\ created' = {}
    /\ types' = Types
    /\ toDelete' = <<>>
    /\ errs' = 0
    /\ sresult' = NoResult
    /\ hist' = NoHist
    /\ lastApplied' = IF sresult = Ok THEN [valid |-> TRUE, keys |-> created] ELSE lastApplied
    /\ UNCHANGED <<storeVars, faults, edits>>

\* ---- the environment
passLocals == <<spc, rp, loopVars, listVars, sresult, faults>>

\* The chart references a user can write: useFlux and the chart version.
ChartRefs == {<<TRUE, "">>, <<FALSE, "">>, <<FALSE, PinnedChartVersion>>, <<FALSE, "5.0.0">>}

\* A write of the user commutes with the steps of a pass that do not touch
\* the cluster; it is taken just before a step that does.
ClusterCalls == {"idle", "unmanage", "removeFinalizer", "addFinalizer", "getLatest",
                 "patchStatus"}

Edited ==
    /\ cluster.exists
    /\ spc \in ClusterCalls
    /\ edits < MaxEdits
    /\ edits' = edits + 1
    /\ UNCHANGED lastApplied
    /\ stale' = TRUE
    /\ hist' = [hist EXCEPT !.quiet = spc = "idle"]
    /\ UNCHANGED <<helmRepository, helmRelease, objects, passLocals>>

\* The user changes the spec: the store bumps the generation.
UserEditSpec ==
    /\ Edited
    /\ ~cluster.deleting
    /\ \E v \in Values \ {cluster.values} :
          cluster' = [cluster EXCEPT !.values = v, !.generation = @ + 1]

\* The user changes the chart reference of the spec, useFlux or the chart
\* version: the store bumps the generation.
UserEditChartRef ==
    /\ Edited
    /\ ~cluster.deleting
    /\ \E c \in ChartRefs \ {<<cluster.useFlux, cluster.chartVersion>>} :
          cluster' = [cluster EXCEPT !.useFlux = c[1], !.chartVersion = c[2],
                                     !.generation = @ + 1]

\* The user sets or removes the managed annotation.
UserSetManaged ==
    /\ Edited
    /\ \E m \in {NoAnnotation, "true", NotManaged} \ {cluster.managed} :
          cluster' = [cluster EXCEPT !.managed = m]

\* The user sets or removes the managed-decommission annotation.
UserSetDecommission ==
    /\ Edited
    /\ cluster' = [cluster EXCEPT !.decommission = ~@]

\* The user deletes the cluster: it stays while it carries a finalizer.
UserDelete ==
    /\ Edited
    /\ ~cluster.deleting
    /\ cluster' = IF cluster.finalizers = {} THEN NoRedpanda
                  ELSE [cluster EXCEPT !.deleting = TRUE]

\* The foreground deletion of the release completes.
ReleaseGone ==
    /\ helmRelease.exists
    /\ helmRelease.deleting
    /\ helmRelease' = NoRelease
    /\ UNCHANGED <<cluster, helmRepository, objects, passLocals, stale, hist, edits, lastApplied>>

\* ---- the initial states

InitObjects ==
    [k \in Keys |->
        IF k = SvcForeign THEN Object(ReleaseName, Namespace, {OtherUID})
        ELSE IF k = SvcUnlabelled THEN Object("", "", {ClusterUID})
        ELSE IF k = SvcOrphan THEN Object(ReleaseName, Namespace, {ClusterUID})
        ELSE IF k = SvcShared THEN Object(ReleaseName, Namespace, {ClusterUID, OtherUID})
        ELSE IF k = SvcElsewhere THEN Object(ReleaseName, Namespace, {ClusterUID})
        ELSE IF k = SvcOtherRelease THEN Object("other", Namespace, {ClusterUID})
        ELSE NoObject]

SyncIdle ==
    /\ helmRepository = FALSE
    /\ helmRelease = NoRelease
    /\ objects = InitObjects
    /\ spc = "idle"
    /\ rp = NoRedpanda
    /\ stale = FALSE
    /\ redpandaStatefulSets = <<>>
    /\ consoleDeployments = <<>>
    /\ objs = <<>>
    /\ created = {}
    /\ types = Types
    /\ toDelete = <<>>
    /\ errs = 0
    /\ sresult = NoResult
    /\ hist = NoHist
    /\ faults = 0
    /\ edits = 0
    /\ lastApplied = NoneApplied

\* A cluster the user has just created.
SyncInit ==
    /\ \E m \in {NoAnnotation, NotManaged}, d \in BOOLEAN, c \in ChartRefs, g \in {0, 1} :
          cluster = Redpanda(m, d, c[1], c[2], g)
    /\ SyncIdle

\* The unbinder at rest, with no Pod to look at.
UnbinderIdle ==
    /\ pod = NoPod
    /\ pvcs = BasePVCs
    /\ pvols = BasePVs
    /\ now = 0
    /\ AllowRebinding = FALSE
    /\ pc = "idle"
    /\ podSnap = NoPod
    /\ todo = <<>>
    /\ pvcByKey = EmptyMap
    /\ pvs = <<>>
    /\ idx = 1
    /\ pending = {}
    /\ result = NoResult
    /\ writes = <<>>
    /\ retainSeen = {}
    /\ fetchMissing = {}
    /\ quiet = TRUE
    /\ prevEnd = NoStore
    /\ env = 0
    /\ failed = NotFailed

(***************************************************************************)
(* Two clusters of one namespace reconciled at the same time: for each, one *)
(* pass through the apply loop and the collector of reconcileDefluxed.      *)
(* Both passes are past the Get of their cluster and run the collector.     *)
(***************************************************************************)
Clusters == {ReleaseName, "other"}

UIDOf(c) == IF c = ReleaseName THEN ClusterUID ELSE OtherUID

CrossKeys == {SvcA, SvcB, SvcOrphan, SvcForeign}

\* What the chart renders for each cluster, as keys. The names come from
\* the values (fullnameOverride), so a name one cluster renders may be the
\* name of an object the other cluster rendered before its values changed.
RenderFor(c) == IF c = ReleaseName THEN <<SvcA>> ELSE <<SvcB, SvcOrphan>>

\* The object a pass of c applies: labels of the release of c, c as the
\* only owner reference set by the field owner redpanda-operator.
AppliedBy(c) == Object(c, Namespace, {UIDOf(c)})

\* The label selector and namespace of the collector's List for c.
ListedFor(c, key, obj) ==
    /\ obj.exists
    /\ key.namespace = Namespace
    /\ obj.relName = c
    /\ obj.relNamespace = Namespace

\* The collector of c keeps a listed object for deletion.
CollectsFor(c, key, obj, applied) == key \notin applied /\ UIDOf(c) \in obj.owners

Range(q) == {q[i] : i \in DOMAIN q}

CrossIdle ==
    /\ xobjects = [k \in CrossKeys |-> NoObject]
    /\ xinit = xobjects
    /\ xpc = [c \in Clusters |-> "done"]
    /\ xobjs = [c \in Clusters |-> <<>>]
    /\ xcreated = [c \in Clusters |-> {}]
    /\ xtoDelete = [c \in Clusters |-> <<>>]
    /\ xlog = {}

\* Each object is absent or was applied by an earlier pass of one of the
\* clusters.
InitCross ==
    /\ xobjects \in [CrossKeys -> {NoObject} \cup {AppliedBy(c) : c \in Clusters}]
    /\ xinit = xobjects
    /\ xpc = [c \in Clusters |-> "idle"]
    /\ xobjs = [c \in Clusters |-> <<>>]
    /\ xcreated = [c \in Clusters |-> {}]
    /\ xtoDelete = [c \in Clusters |-> <<>>]
    /\ xlog = {}

\* Lines 269-280: the render.
XRender(c) ==
    /\ xpc[c] = "idle"
    /\ xobjs' = [xobjs EXCEPT ![c] = RenderFor(c)]
    /\ xpc' = [xpc EXCEPT ![c] = "apply"]
    /\ UNCHANGED <<xobjects, xinit, xcreated, xtoDelete, xlog>>

\* Lines 281-324: the forced server-side apply of the next rendered object.
XApply(c) ==
    /\ xpc[c] = "apply"
    /\ LET key == Head(xobjs[c]) IN
       /\ xobjects' = [xobjects EXCEPT ![key] = AppliedBy(c)]
       /\ xcreated' = [xcreated EXCEPT ![c] = @ \cup {key}]
       /\ xobjs' = [xobjs EXCEPT ![c] = Tail(@)]
       /\ xpc' = [xpc EXCEPT ![c] = IF Tail(xobjs[c]) = <<>> THEN "gcList" ELSE "apply"]
    /\ UNCHANGED <<xinit, xtoDelete, xlog>>

\* Lines 353-400: the List and the selection among its items.
XGcList(c) ==
    /\ xpc[c] = "gcList"
    /\ \E items \in SeqOfSet({k \in CrossKeys : /\ ListedFor(c, k, xobjects[k])
                                                /\ CollectsFor(c, k, xobjects[k], xcreated[c])}) :
          /\ xtoDelete' = [xtoDelete EXCEPT ![c] = items]
          /\ xpc' = [xpc EXCEPT ![c] = IF items = <<>> THEN "done" ELSE "gcDelete"]
    /\ UNCHANGED <<xobjects, xinit, xobjs, xcreated, xlog>>

\* Lines 404-411: the Delete of the next object, by name and without
\* preconditions; a delete that does not find the object is an error that
\* is joined, and the loop goes on.
XGcDelete(c) ==
    /\ xpc[c] = "gcDelete"
    /\ LET key == Head(xtoDelete[c]) IN
       /\ xtoDelete' = [xtoDelete EXCEPT ![c] = Tail(@)]
       /\ xpc' = [xpc EXCEPT ![c] = IF Tail(xtoDelete[c]) = <<>> THEN "done" ELSE "gcDelete"]
       /\ IF xobjects[key].exists
          THEN /\ xobjects' = [xobjects EXCEPT ![key] = NoObject]
               /\ xlog' = xlog \cup {[by |-> c, key |-> key, owners |-> xobjects[key].owners]}
          ELSE UNCHANGED <<xobjects, xlog>>
    /\ UNCHANGED <<xinit, xobjs, xcreated>>

InitBoth == UnbinderIdle /\ cluster = NoRedpanda /\ SyncIdle /\ InitCross

NextCross ==
    \/ \E c \in Clusters : XRender(c) /\ UNCHANGED <<remVars, syncVars>>
    \/ \E c \in Clusters : XApply(c) /\ UNCHANGED <<remVars, syncVars>>
    \/ \E c \in Clusters : XGcList(c) /\ UNCHANGED <<remVars, syncVars>>
    \/ \E c \in Clusters : XGcDelete(c) /\ UNCHANGED <<remVars, syncVars>>

SpecCross == InitBoth /\ [][NextCross]_vars

InitSync == SyncInit /\ UnbinderIdle /\ CrossIdle

NextSync ==
    \/ Get /\ UNCHANGED <<remVars, crossVars>>
    \/ Unmanage /\ UNCHANGED <<remVars, crossVars>>
    \/ RemoveFinalizer /\ UNCHANGED <<remVars, crossVars>>
    \/ AddFinalizer /\ UNCHANGED <<remVars, crossVars>>
    \/ ListStatefulSets /\ UNCHANGED <<remVars, crossVars>>
    \/ ListDeployments /\ UNCHANGED <<remVars, crossVars>>
    \/ ApplyRepository /\ UNCHANGED <<remVars, crossVars>>
    \/ ApplyRelease /\ UNCHANGED <<remVars, crossVars>>
    \/ NeedsDecommission /\ UNCHANGED <<remVars, crossVars>>
    \/ Reconciled /\ UNCHANGED <<remVars, crossVars>>
    \/ Apply /\ UNCHANGED <<remVars, crossVars>>
    \/ GcList /\ UNCHANGED <<remVars, crossVars>>
    \/ GcDelete /\ UNCHANGED <<remVars, crossVars>>
    \/ GetLatest /\ UNCHANGED <<remVars, crossVars>>
    \/ PatchStatus /\ UNCHANGED <<remVars, crossVars>>
    \/ GetRelease /\ UNCHANGED <<remVars, crossVars>>
    \/ DeleteRelease /\ UNCHANGED <<remVars, crossVars>>
    \/ SDone /\ UNCHANGED <<remVars, crossVars>>
    \/ UserEditSpec /\ UNCHANGED <<remVars, crossVars>>
    \/ UserSetManaged /\ UNCHANGED <<remVars, crossVars>>
    \/ UserSetDecommission /\ UNCHANGED <<remVars, crossVars>>
    \/ UserDelete /\ UNCHANGED <<remVars, crossVars>>
    \/ ReleaseGone /\ UNCHANGED <<remVars, crossVars>>

SpecSync == InitSync /\ [][NextSync]_vars

\* ---- the sync of a managed cluster whose chart reference the user edits
\* A cluster the user has just created in the store, which numbers its
\* generations from 1.
InitManaged ==
    /\ \E c \in ChartRefs : cluster = Redpanda(NoAnnotation, FALSE, c[1], c[2], 1)
    /\ SyncIdle
    /\ UnbinderIdle
    /\ CrossIdle

NextManaged ==
    \/ Get /\ UNCHANGED <<remVars, crossVars>>
    \/ AddFinalizer /\ UNCHANGED <<remVars, crossVars>>
    \/ ListStatefulSets /\ UNCHANGED <<remVars, crossVars>>
    \/ ListDeployments /\ UNCHANGED <<remVars, crossVars>>
    \/ ApplyRepository /\ UNCHANGED <<remVars, crossVars>>
    \/ ApplyRelease /\ UNCHANGED <<remVars, crossVars>>
    \/ NeedsDecommission /\ UNCHANGED <<remVars, crossVars>>
    \/ Reconciled /\ UNCHANGED <<remVars, crossVars>>
    \/ Apply /\ UNCHANGED <<remVars, crossVars>>
    \/ GcList /\ UNCHANGED <<remVars, crossVars>>
    \/ GcDelete /\ UNCHANGED <<remVars, crossVars>>
    \/ GetLatest /\ UNCHANGED <<remVars, crossVars>>
    \/ PatchStatus /\ UNCHANGED <<remVars, crossVars>>
    \/ SDone /\ UNCHANGED <<remVars, crossVars>>
    \/ UserEditSpec /\ UNCHANGED <<remVars, crossVars>>
    \/ UserEditChartRef /\ UNCHANGED <<remVars, crossVars>>

SpecManaged == InitManaged /\ [][NextManaged]_vars

\* ---- the sync of a rendering cluster whose values the user edits, with
\* passes that keep being invoked
\* The steps of a sync pass of a managed cluster.
PassManaged ==
    \/ Get \/ AddFinalizer \/ ListStatefulSets \/ ListDeployments \/ ApplyRepository
    \/ ApplyRelease \/ NeedsDecommission \/ Reconciled \/ Apply \/ GcList \/ GcDelete
    \/ GetLatest \/ PatchStatus \/ SDone

InitOrphans ==
    /\ cluster = Redpanda(NoAnnotation, FALSE, FALSE, "", 1)
    /\ SyncIdle
    /\ UnbinderIdle
    /\ CrossIdle

NextOrphans ==
    \/ Get /\ UNCHANGED <<remVars, crossVars>>
    \/ AddFinalizer /\ UNCHANGED <<remVars, crossVars>>
    \/ ListStatefulSets /\ UNCHANGED <<remVars, crossVars>>
    \/ ListDeployments /\ UNCHANGED <<remVars, crossVars>>
    \/ ApplyRepository /\ UNCHANGED <<remVars, crossVars>>
    \/ ApplyRelease /\ UNCHANGED <<remVars, crossVars>>
    \/ NeedsDecommission /\ UNCHANGED <<remVars, crossVars>>
    \/ Reconciled /\ UNCHANGED <<remVars, crossVars>>
    \/ Apply /\ UNCHANGED <<remVars, crossVars>>
    \/ GcList /\ UNCHANGED <<remVars, crossVars>>
    \/ GcDelete /\ UNCHANGED <<remVars, crossVars>>
    \/ GetLatest /\ UNCHANGED <<remVars, crossVars>>
    \/ PatchStatus /\ UNCHANGED <<remVars, crossVars>>
    \/ SDone /\ UNCHANGED <<remVars, crossVars>>
    \/ UserEditSpec /\ UNCHANGED <<remVars, crossVars>>

SpecOrphans ==
    /\ InitOrphans
    /\ [][NextOrphans]_vars
    /\ WF_vars(PassManaged /\ UNCHANGED <<remVars, crossVars>>)

\* ---- reconcileHelmRelease alone
\* A pass about to apply the release of a managed cluster that carries the
\* finalizer and whose repository it found ready.
InitReadiness ==
    /\ UnbinderIdle
    /\ CrossIdle
    /\ \E c \in ChartRefs, g \in {0, 1} :
          cluster = [Redpanda(NoAnnotation, FALSE, c[1], c[2], g)
                        EXCEPT !.finalizers = {FinalizerKey}]
    /\ rp = [cluster EXCEPT !.status.helmRepository = ReleaseName,
                            !.status.helmRepositoryReady = TRUE]
    /\ helmRepository = TRUE
    /\ helmRelease = NoRelease
    /\ objects = InitObjects
    /\ spc = "applyRelease"
    /\ stale = FALSE
    /\ redpandaStatefulSets \in StsLists
    /\ consoleDeployments \in DeploymentLists
    /\ objs = <<>>
    /\ created = {}
    /\ types = Types
    /\ toDelete = <<>>
    /\ errs = 0
    /\ sresult = NoResult
    /\ hist = [NoHist EXCEPT !.seen.repo = FluxStatus(2, 2, TRUE, FALSE),
                             !.seen.repoSeen = TRUE, !.seen.suspend = Suspend(cluster)]
    /\ faults = 0
    /\ edits = 0
    /\ lastApplied = NoneApplied

NextReadiness ==
    \/ ApplyReleaseOf(AllReleaseStatuses) /\ UNCHANGED <<remVars, crossVars>>
    \/ NeedsDecommission /\ UNCHANGED <<remVars, crossVars>>
    \/ Reconciled /\ UNCHANGED <<remVars, crossVars>>

SpecReadiness == InitReadiness /\ [][NextReadiness]_vars




Init ==
    /\ InitStore
    /\ now = 0
    /\ AllowRebinding \in BOOLEAN
    /\ pc = "idle"
    /\ podSnap = NoPod
    /\ todo = <<>>
    /\ pvcByKey = EmptyMap
    /\ pvs = <<>>
    /\ idx = 1
    /\ pending = {}
    /\ result = NoResult
    /\ writes = <<>>
    /\ retainSeen = {}
    /\ fetchMissing = {}
    /\ quiet = TRUE
    /\ prevEnd = NoStore
    /\ env = 0
    /\ failed = NotFailed
    /\ cluster = NoRedpanda
    /\ SyncIdle
    /\ CrossIdle

Next ==
    \/ GetPod /\ UNCHANGED <<syncVars, crossVars>>
    \/ GetPVC /\ UNCHANGED <<syncVars, crossVars>>
    \/ ListPVs /\ UNCHANGED <<syncVars, crossVars>>
    \/ EnsureRetain /\ UNCHANGED <<syncVars, crossVars>>
    \/ DeletePVC /\ UNCHANGED <<syncVars, crossVars>>
    \/ Recycle /\ UNCHANGED <<syncVars, crossVars>>
    \/ DeletePod /\ UNCHANGED <<syncVars, crossVars>>
    \/ Done /\ UNCHANGED <<syncVars, crossVars>>
    \/ Tick /\ UNCHANGED <<syncVars, crossVars>>
    \/ ExtSetReclaim /\ UNCHANGED <<syncVars, crossVars>>
    \/ ExtPodScheduled /\ UNCHANGED <<syncVars, crossVars>>
    \/ ExtDeletePVC /\ UNCHANGED <<syncVars, crossVars>>
    \/ ExtUpdatePVC /\ UNCHANGED <<syncVars, crossVars>>

Spec == Init /\ [][Next]_vars

(***************************************************************************)
(* The unbinder under a driver that keeps invoking Reconcile: a pass that   *)
(* returned an error is queued again, and a pass under way runs to its end. *)
(***************************************************************************)
Pass ==
    \/ GetPod \/ GetPVC \/ ListPVs \/ EnsureRetain \/ DeletePVC \/ Recycle \/ DeletePod
    \/ Done

\* A Pod stuck past the timeout with the claim data-db-0 bound to pv1.
InitRetry ==
    /\ Init
    /\ pod = DuePod
    /\ pvcs[ClaimA] = PVC("pv1")
    /\ pvols["pv2"] \in {LocalPV(ClaimRef(Namespace, ClaimB), Delete),
                          LocalPV(ClaimRef(Namespace, ClaimB), Retain),
                          NetworkPV(ClaimRef(Namespace, ClaimA), Delete)}

SpecRetry == InitRetry /\ [][Next]_vars /\ WF_vars(Pass /\ UNCHANGED <<syncVars, crossVars>>)

(***************************************************************************)
(* The reads that can find nothing: the Pod and the claims of a            *)
(* remediation pass, the cluster of a sync pass, the release of a deletion *)
(* pass.                                                                   *)
(***************************************************************************)
\* A cluster under deletion that carries the finalizer and names a release
\* in its status, while the store holds no such release.
DeletingCluster(c) ==
    [Redpanda(NoAnnotation, FALSE, c[1], c[2], 1)
        EXCEPT !.deleting = TRUE, !.finalizers = {FinalizerKey},
               !.status.helmRelease = ReleaseName, !.status.helmRepository = ReleaseName]

InitNotFound ==
    \/ /\ InitRetry
       /\ AllowRebinding
       /\ pvols["pv2"] = LocalPV(ClaimRef(Namespace, ClaimB), Delete)
    \/ /\ UnbinderIdle
       /\ CrossIdle
       /\ SyncIdle
       /\ \E c \in ChartRefs : cluster = DeletingCluster(c)

NextNotFound ==
    \/ GetPod /\ UNCHANGED <<syncVars, crossVars>>
    \/ GetPVC /\ UNCHANGED <<syncVars, crossVars>>
    \/ ListPVs /\ UNCHANGED <<syncVars, crossVars>>
    \/ EnsureRetain /\ UNCHANGED <<syncVars, crossVars>>
    \/ DeletePVC /\ UNCHANGED <<syncVars, crossVars>>
    \/ Recycle /\ UNCHANGED <<syncVars, crossVars>>
    \/ DeletePod /\ UNCHANGED <<syncVars, crossVars>>
    \/ Done /\ UNCHANGED <<syncVars, crossVars>>
    \/ Tick /\ UNCHANGED <<syncVars, crossVars>>
    \/ ExtSetReclaim /\ UNCHANGED <<syncVars, crossVars>>
    \/ ExtPodScheduled /\ UNCHANGED <<syncVars, crossVars>>
    \/ ExtDeletePVC /\ UNCHANGED <<syncVars, crossVars>>
    \/ ExtUpdatePVC /\ UNCHANGED <<syncVars, crossVars>>
    \/ Get /\ UNCHANGED <<remVars, crossVars>>
    \/ GetRelease /\ UNCHANGED <<remVars, crossVars>>
    \/ RemoveFinalizer /\ UNCHANGED <<remVars, crossVars>>
    \/ SDone /\ UNCHANGED <<remVars, crossVars>>

SpecNotFound == InitNotFound /\ [][NextNotFound]_vars


(***************************************************************************)
(* Properties of the remediation pass.                                      *)
(***************************************************************************)
DeletesOfPVC == {i \in 1..Len(writes) : writes[i].op = "deletePVC"}
DeletesOfPod == {i \in 1..Len(writes) : writes[i].op = "deletePod"}

\* C1: every claim delete of a pass is for a claim whose bound Volume the
\* pass has, before the delete, seen with reclaim policy Retain or patched to
\* Retain (ensureRetainPolicy returned without error for it).
C1_DeleteOnlyAfterRetain ==
    \A i \in DeletesOfPVC : writes[i].retained

\* C2: when a claim delete takes effect for a claim whose bound Volume the
\* pass has checked or patched, the live Volume carries Retain at that moment,
\* whatever other actors did to it in between.
C2_LiveRetainAtDelete ==
    \A i \in DeletesOfPVC : writes[i].retained => writes[i].liveReclaim = Retain

\* C3, as stated: the Pod is deleted only after a claim delete of the same pass.
C3_PodDeleteOnlyAfterPVCDelete ==
    \A i \in DeletesOfPod : \E j \in DeletesOfPVC : j < i

\* C3, amended: the Pod is deleted only if a claim kept in the map is missing:
\* deleted by a claim delete of the same pass, or not found when fetched.
C3_PodDeleteOnlyIfMissing ==
    \A i \in DeletesOfPod :
        \/ \E j \in DeletesOfPVC : j < i
        \/ fetchMissing \cap DOMAIN pvcByKey # {}

\* A pass deleted the Pod without deleting a claim: a claim was not found.
C3_Witness ==
    /\ DeletesOfPod # {}
    /\ DeletesOfPVC = {}
    /\ fetchMissing # {}

OwnedByStatefulSet(p) ==
    \E i \in DOMAIN p.owners :
        p.owners[i] = [apiVersion |-> "apps/v1", kind |-> "StatefulSet", controller |-> "true"]

NotEligible == [ok |-> FALSE, delay |-> 0]
NoRequeue == [err |-> "", requeue |-> FALSE, requeueAfter |-> 0]

\* The pass under way fetched a Pod that is not owned by a StatefulSet or
\* is not Pending.
Unowned == pc # "idle" /\ podSnap.exists /\ ~(OwnedByStatefulSet(podSnap) /\ podSnap.phase = "Pending")

\* C11: for a Pod without a controller owner reference to a StatefulSet, or
\* not Pending, ShouldRemediate returns (false, 0) at every time, and the
\* pass issues no write and asks for no requeue.
C11_UnownedNeverRemediated ==
    Unowned =>
        /\ \A t \in 0..MaxNow : ShouldRemediate(podSnap, t) = NotEligible
        /\ writes = <<>>
        /\ pc = "done" /\ result = NoRequeue

\* Such a Pod carrying the condition and the message of a stuck Pod.
C11_Witness ==
    /\ Unowned
    /\ pc = "done"
    /\ \E i \in DOMAIN podSnap.conditions :
          /\ podSnap.conditions[i].reason = "Unschedulable"
          /\ podSnap.conditions[i].message[1] = "0"

\* The message starts with 0/N nodes are available, N a positive integer
\* without leading zero, or contains volume node affinity.
PointsAtVolumes(m) ==
    \/ \E n \in 1..Len(m) : m[n] = "volume node affinity"
    \/ \E n \in 4..Len(m) :
          /\ m[1] = "0" /\ m[2] = "/"
          /\ m[3] \in {"1", "2", "3", "4", "5", "6", "7", "8", "9"}
          /\ \A k \in 4..(n - 1) : m[k] \in {"0", "1", "2", "3", "4", "5", "6", "7", "8", "9"}
          /\ m[n] = " nodes are available"

StuckConditions(p) ==
    {i \in DOMAIN p.conditions :
        /\ p.conditions[i].type = "PodScheduled"
        /\ p.conditions[i].status = "False"
        /\ p.conditions[i].reason = "Unschedulable"}

\* The first PodScheduled/False/Unschedulable condition of the Pod does not
\* point at volumes, or the Pod has no such condition.
NoVolumeFailure(p) ==
    \A i \in StuckConditions(p) :
        (\A j \in StuckConditions(p) : i <= j) => ~PointsAtVolumes(p.conditions[i].message)

\* C12: for a Pod whose Unschedulable condition has a message that neither
\* starts with 0/N nodes are available nor contains volume node affinity,
\* and for a Pod without such a condition, ShouldRemediate returns
\* (false, 0) and the pass issues no patch and no delete.
C12_OtherFailuresNeverRemediated ==
    (pc # "idle" /\ podSnap.exists /\ NoVolumeFailure(podSnap)) =>
        /\ \A t \in 0..MaxNow : ShouldRemediate(podSnap, t) = NotEligible
        /\ writes = <<>>
        /\ pc = "done" /\ result = NoRequeue

\* A Pending Pod of a StatefulSet whose scheduling failure has another cause.
C12_Witness ==
    /\ pc = "done"
    /\ podSnap.exists
    /\ OwnedByStatefulSet(podSnap) /\ podSnap.phase = "Pending"
    /\ StuckConditions(podSnap) # {}
    /\ NoVolumeFailure(podSnap)

\* A Pending Pod of a StatefulSet that passes the selector and the filter
\* and whose first Unschedulable condition points at volumes.
Eligible(p) ==
    /\ p.exists
    /\ p.selected /\ p.filter \notin {"err", "drop"}
    /\ OwnedByStatefulSet(p) /\ p.phase = "Pending"
    /\ StuckConditions(p) # {}
    /\ ~NoVolumeFailure(p)

\* p with the last transition of its conditions at ltt.
TransitionedAt(p, ltt) ==
    [p EXCEPT !.conditions = [i \in DOMAIN @ |-> [@[i] EXCEPT !.lastTransitionTime = ltt]]]

Delay(p, ltt, t) == ShouldRemediate(TransitionedAt(p, ltt), t).delay

\* C13: for an eligible Pod and elapsed = now - lastTransitionTime,
\* ShouldRemediate returns (true, Timeout - elapsed) while elapsed < Timeout
\* and (true, 0) from then on; the delay is positive before
\* lastTransitionTime + Timeout, strictly decreases as now advances, and is
\* 0 from the threshold on.
C13_TimeoutArithmetic ==
    (pc = "done" /\ writes = <<>> /\ env = 0 /\ Eligible(podSnap)) =>
        /\ \A ltt \in 0..MaxNow : \A t \in 0..(MaxNow + Timeout) :
              LET elapsed == t - ltt
                  should == ShouldRemediate(TransitionedAt(podSnap, ltt), t)
              IN /\ should = [ok |-> TRUE, delay |-> IF elapsed < Timeout THEN Timeout - elapsed ELSE 0]
                 /\ t < ltt + Timeout => should.delay > 0
                 /\ t < ltt + Timeout => Delay(podSnap, ltt, t + 1) < should.delay
                 /\ t >= ltt + Timeout => should.delay = 0
        /\ result.err = "" => result.requeueAfter = ShouldRemediate(podSnap, now).delay

\* A pass that found an eligible Pod part of the way to the timeout.
C13_Witness ==
    /\ pc = "done"
    /\ Eligible(podSnap)
    /\ result.requeueAfter > 0
    /\ result.requeueAfter < Timeout

\* C15: when ShouldRemediate returns a positive delay the pass issues no
\* patch and no delete and returns, without error, a requeue after that
\* delay; when it returns not eligible the pass issues no write and asks
\* for no requeue.
C15_NotDuePassesDoNotAct ==
    (pc # "idle" /\ podSnap.exists) =>
        LET should == ShouldRemediate(podSnap, now) IN
        /\ should.delay > 0 =>
              /\ pc = "done" /\ writes = <<>>
              /\ result = [err |-> "", requeue |-> TRUE, requeueAfter |-> should.delay]
        /\ ~should.ok =>
              /\ pc = "done" /\ writes = <<>>
              /\ result = NoRequeue

\* A pass that found the Pod waiting for the timeout.
C15_Witness ==
    /\ pc = "done"
    /\ podSnap.exists
    /\ ShouldRemediate(podSnap, now).delay > 0
    /\ result.requeue

(***************************************************************************)
(* Properties of the writes of a pass.                                     *)
(***************************************************************************)
Ops(op) == {i \in DOMAIN writes : writes[i].op = op}

\* The last entry of the log after the step is a write op on obj.
Logs(op, obj) ==
    /\ Len(writes') = Len(writes) + 1
    /\ SubSeq(writes', 1, Len(writes)) = writes
    /\ writes'[Len(writes')].op = op
    /\ writes'[Len(writes')].obj = obj

\* The writes the unbinder may issue, as changes of the store.
AllowedWrite ==
    \/ /\ UNCHANGED <<pod, pvcs, pvols>>
       /\ writes' = writes \/ writes' = <<>>
    \/ /\ UNCHANGED <<pod, pvcs>>
       /\ \E v \in PVNames :
             /\ pvols' = [pvols EXCEPT ![v].reclaim = Retain, ![v].rv = @ + 1]
             /\ Logs("patchRetain", v)
    \/ /\ UNCHANGED <<pod, pvcs>>
       /\ \E v \in PVNames :
             /\ pvols' = [pvols EXCEPT ![v].claimRef = NoClaimRef, ![v].rv = @ + 1]
             /\ Logs("clearClaimRef", v)
    \/ /\ UNCHANGED <<pod, pvols>>
       /\ \E c \in ClaimNames :
             /\ pvcs[c].present
             /\ pvcs' = [pvcs EXCEPT ![c] = NilPVC]
             /\ Logs("deletePVC", c)
    \/ /\ UNCHANGED <<pvcs, pvols>>
       /\ pod.exists
       /\ pod' = NoPod
       /\ Logs("deletePod", PodName)

\* C16: the only writes of a pass are a patch of the reclaim policy of a
\* Volume, a clear of the claimRef of a Volume, a delete of a claim and a
\* delete of the Pod; a pass creates nothing, changes no claim and no Pod,
\* and deletes no Volume.
C16_OnlyFourWrites == [][passVars' # passVars => AllowedWrite]_vars

\* A pass that issued a write of each kind.
C16_Witness ==
    /\ Ops("patchRetain") # {}
    /\ Ops("deletePVC") # {}
    /\ Ops("clearClaimRef") # {}
    /\ Ops("deletePod") # {}

\* C19: in a pass every Retain patch precedes every claim delete, every
\* claim delete precedes every claimRef clear, and the Pod delete, when it
\* happens, is the last write.
C19_WriteOrder ==
    /\ \A i \in Ops("patchRetain") : \A j \in Ops("deletePVC") : i < j
    /\ \A i \in Ops("deletePVC") : \A j \in Ops("clearClaimRef") : i < j
    /\ \A i \in Ops("patchRetain") : \A j \in Ops("clearClaimRef") : i < j
    /\ \A i \in Ops("deletePod") : i = Len(writes) /\ pc = "done"

\* A pass that patched two Volumes, deleted two claims, cleared two
\* claimRefs and deleted the Pod.
C19_Witness ==
    /\ Cardinality(Ops("patchRetain")) >= 2
    /\ Cardinality(Ops("deletePVC")) >= 2
    /\ Cardinality(Ops("clearClaimRef")) >= 2
    /\ Ops("deletePod") # {}

\* C20: when a store call fails with an error other than not-found the
\* pass returns that error and issues no further write; after a failed
\* Retain patch no claim is deleted, after a failed claim delete no
\* claimRef is cleared and the Pod is not deleted.
C20_AbortOnError ==
    failed.call # "" =>
        /\ pc = "done"
        /\ result = Err("transient")
        /\ Len(writes) = failed.nwrites
        /\ failed.call = "patchRetain" => Ops("deletePVC") = {}
        /\ failed.call \in {"patchRetain", "deletePVC"} =>
              Ops("clearClaimRef") = {} /\ Ops("deletePod") = {}
        /\ failed.call # "deletePod" => pod.exists \/ ~podSnap.exists

\* A claim delete that failed after another claim was deleted.
C20_Witness ==
    /\ failed.call = "deletePVC"
    /\ Ops("deletePVC") # {}
    /\ pc = "done"

(***************************************************************************)
(* Properties of the retried pass.                                         *)
(***************************************************************************)
\* A pass deleted a claim and returned an error with the Pod still there.
AbortedAfterDelete ==
    /\ pc = "done"
    /\ result.err \notin {"", "none"}
    /\ Ops("deletePVC") # {}
    /\ pod.exists

\* C18: if a pass deletes a bound candidate claim and then returns an error
\* before it deletes the Pod, then, as long as the Pod stays eligible and
\* the driver keeps invoking Reconcile, a later pass deletes the Pod.
C18_RetryDeletesPod ==
    AbortedAfterDelete ~> (~pod.exists \/ ~ShouldRemediate(pod, now).ok)

\* A later pass deleted the Pod after finding the claim of the earlier
\* pass missing.
C18_Witness ==
    /\ failed.earlier
    /\ Ops("deletePod") # {}
    /\ fetchMissing # {}

(***************************************************************************)
(* Properties of the cluster reconciler.                                   *)
(***************************************************************************)
Failed == sresult.err \notin {"", "none"}

\* C4: every object the collector deleted in the pass carried both release
\* labels of the cluster's release in the cluster's namespace, had an owner
\* reference with the cluster's UID, and had a key the apply loop of the same
\* pass did not apply; so nothing applied in a pass is deleted in it.
C4_GCSound ==
    \A i \in 1..Len(hist.gc) :
        /\ hist.gc[i].labelled
        /\ hist.gc[i].owned
        /\ ~hist.gc[i].applied
        /\ hist.gc[i].key \notin created

\* A pass applied objects and then deleted another one.
C4_Witness ==
    /\ hist.gc # <<>>
    /\ created # {}

\* The persisted observedGeneration differs from what the pass found.
Observed == cluster.exists /\ cluster.status.observedGeneration # hist.start

\* C6: the persisted observedGeneration changes only in a pass whose
\* readiness step, sync and collection step and status patch all completed
\* with no failed call, and then to the generation the pass holds; a pass
\* that returns an error leaves it as it was.
C6_ObservedOnlyOnSuccess ==
    spc # "idle" =>
        /\ Observed =>
              /\ hist.readiness /\ hist.sync /\ hist.patched /\ ~hist.failed
              /\ cluster.status.observedGeneration = rp.generation
        /\ (spc = "done" /\ Failed) => ~Observed

\* A pass has persisted a new observedGeneration.
C6_Witness ==
    /\ spc = "done"
    /\ Observed
    /\ hist.patched

\* C7: after a pass that returned without error, with no write of the user
\* since it began, the cluster carries the finalizer iff it is not being
\* deleted and is not marked managed = "false".
C7_FinalizerIffManaged ==
    (spc = "done" /\ sresult = Ok /\ hist.quiet /\ cluster.exists) =>
        (FinalizerKey \in cluster.finalizers
            <=> (~cluster.deleting /\ cluster.managed # "false"))

\* C8: the finalizer of a cluster under deletion is removed only in a pass
\* that saw the release absent; it is never removed while the release is in
\* the store.
C8_FinalizerOnlyAfterRelease ==
    hist.removed = "delete" => (hist.sawAbsent \/ ~hist.releaseAtRemoval)

\* What the pass observed, in the words of the readiness rule.
RepositoryWasReady ==
    /\ hist.seen.repoSeen
    /\ \/ hist.seen.suspend
       \/ /\ hist.seen.repo.ready
          /\ hist.seen.repo.generation = hist.seen.repo.observedGeneration
ReleaseWasReady ==
    /\ hist.seen.releaseSeen
    /\ \/ hist.seen.suspend
       \/ /\ hist.seen.release.ready \/ hist.seen.release.remediated
          /\ hist.seen.release.generation = hist.seen.release.observedGeneration
Desired(i) ==
    IF redpandaStatefulSets[i].replicas = NilReplicas THEN 0
    ELSE redpandaStatefulSets[i].replicas
StatefulSetsConverged ==
    \A i \in 1..Len(redpandaStatefulSets) :
        /\ redpandaStatefulSets[i].updated = Desired(i)
        /\ redpandaStatefulSets[i].available = Desired(i)
        /\ redpandaStatefulSets[i].ready = Desired(i)
RECURSIVE DesiredUpTo(_)
DesiredUpTo(n) == IF n = 0 THEN 0 ELSE Desired(n) + DesiredUpTo(n - 1)
DesiredReplicas == DesiredUpTo(Len(redpandaStatefulSets))
ExcessMembers == hist.seen.healthSeen /\ hist.seen.allNodes > DesiredReplicas
MarkedReady == rp.status.condition = Ready
MarkedNotReady == rp.status.condition \notin {Ready, NoCondition}

ReadyRule(gateClear) ==
    spc = "reconciled" =>
        LET all == /\ RepositoryWasReady
                   /\ ReleaseWasReady
                   /\ Len(redpandaStatefulSets) > 0
                   /\ StatefulSetsConverged
                   /\ gateClear
        IN  /\ MarkedReady => all
            /\ ~all => MarkedNotReady

\* C9, as stated: the pass marks the cluster Ready only if the repository
\* and the release were ready, a StatefulSet exists, every StatefulSet has
\* converged and the live members do not exceed the desired replicas; if
\* one of these fails the cluster is marked not ready.
C9_ReadyOnlyIfAll == ReadyRule(hist.seen.healthSeen /\ ~ExcessMembers)

\* C9, amended: the same, the gate being clear also when the desired
\* replicas sum to 0.
C9_ReadyOnlyIfAllButZero ==
    ReadyRule(hist.seen.healthSeen /\ (~ExcessMembers \/ DesiredReplicas = 0))

\* The pass marked a cluster with desired replicas Ready.
C9_Witness ==
    /\ spc = "reconciled"
    /\ MarkedReady
    /\ DesiredReplicas > 0

\* C10, as stated: whenever the health overview reports more brokers than
\* the desired replicas sum to, the pass does not mark the cluster Ready.
C10_GateWithholds ==
    (spc = "reconciled" /\ ExcessMembers) => ~MarkedReady

\* C10, amended: the same whenever the desired replicas do not sum to 0.
C10_GateWithholdsUnlessZero ==
    (spc = "reconciled" /\ ExcessMembers /\ DesiredReplicas # 0) => MarkedNotReady

\* The gate withheld readiness from a cluster all of whose StatefulSets
\* had converged.
C10_Witness ==
    /\ spc = "reconciled"
    /\ ExcessMembers
    /\ DesiredReplicas # 0
    /\ MarkedNotReady

\* The keys of the objects a pass applies for values: the rendered objects
\* that are no hooks.
RenderedKeys(values) ==
    LET os == Render(values).objs
    IN  {Key(os[i].kind, Namespace, os[i].name) : i \in {j \in DOMAIN os : ~os[j].hook}}

\* The pass under way renders for a cluster whose generation was observed
\* and whose rendered set is the set the last successful pass applied.
NothingNew ==
    /\ spc \notin {"idle", "reconciled"}
    /\ hist.readiness
    /\ rp.exists
    /\ ~rp.useFlux
    /\ rp.generation = hist.start
    /\ Render(rp.values).err = ""
    /\ lastApplied.valid
    /\ RenderedKeys(rp.values) = lastApplied.keys

\* C14: a pass for a cluster whose generation equals its observed
\* generation and whose rendered set equals the set applied by the last
\* successful pass issues no delete, whatever the generation, 0 included.
C14_NoDeletesWhenNothingNew ==
    NothingNew => hist.gc = <<>> /\ toDelete = <<>> /\ spc # "gcDelete"

\* Such a pass at generation 0, where the collector runs, once it has
\* listed every kind.
C14_Witness ==
    /\ NothingNew
    /\ rp.generation = 0
    /\ created = lastApplied.keys
    /\ types = <<>>
    /\ spc = "done"
    /\ sresult = Ok

(***************************************************************************)
(* Properties of two passes for two clusters.                              *)
(***************************************************************************)
Peer(c) == CHOOSE d \in Clusters : d # c

\* The store after a whole pass of c on store.
RunPass(store, c) ==
    LET applied == [k \in CrossKeys |-> IF k \in Range(RenderFor(c)) THEN AppliedBy(c)
                                        ELSE store[k]]
    IN  [k \in CrossKeys |->
            IF ListedFor(c, k, applied[k]) /\ CollectsFor(c, k, applied[k], Range(RenderFor(c)))
            THEN NoObject ELSE applied[k]]

OneAfterTheOther ==
    {RunPass(RunPass(xinit, c), Peer(c)) : c \in Clusters}

\* C17: when the passes of two clusters of one namespace interleave, no
\* pass deletes an object whose owner references are only the other
\* cluster's, and the store they leave is the store left by running them
\* one after the other.
C17_CrossKeyIndependence ==
    /\ \A d \in xlog : d.owners # {UIDOf(Peer(d.by))}
    /\ (\A c \in Clusters : xpc[c] = "done") => xobjects \in OneAfterTheOther

(***************************************************************************)
(* Properties of the candidate filter and of the steps after it.           *)
(***************************************************************************)
\* The candidate claims of the pass: the keys of StsPVCs.
Candidates == {StsPVCs(podSnap)[i] : i \in DOMAIN StsPVCs(podSnap)}

\* The listed Volume v is bound to a candidate claim, carries a node
\* affinity and has local or host-path backing.
Matched(v) ==
    /\ pvols[v].claimRef.set
    /\ pvols[v].claimRef.namespace = Namespace
    /\ pvols[v].claimRef.name \in Candidates
    /\ pvols[v].nodeAffinity
    /\ pvols[v].hostPath \/ pvols[v].local

MatchedCandidates == {c \in Candidates : \E v \in PVNames : Matched(v) /\ pvols[v].claimRef.name = c}

\* C21: the Volumes the pass patches or recycles are exactly the listed
\* Volumes bound to a candidate claim with a node affinity and local or
\* host-path backing, and a candidate claim without such a Volume is
\* dropped from the candidate set, so it is never deleted.
C21_CandidateFilter ==
    pc \in {"retain", "deletePVC"} =>
        /\ {pvs[i].name : i \in DOMAIN pvs} = {v \in PVNames : Matched(v)}
        /\ DOMAIN pvcByKey = MatchedCandidates
        /\ \A i \in Ops("deletePVC") : writes[i].obj \in MatchedCandidates

\* The pass found the claim c and did not delete it.
KeptByPass(c) == c \notin fetchMissing /\ \A i \in Ops("deletePVC") : writes[i].obj # c

\* The step changes the claimRef of Volume v.
ClaimRefChanged(v) == pvols'[v].claimRef # pvols[v].claimRef

\* C22: without AllowRebinding no pass changes a claimRef; with it a pass
\* clears the claimRef only of Volumes kept by the filter that still have
\* one, only after the claim deletes of the pass, and never of a Volume
\* whose candidate claim was kept (found, and not deleted).
C22_ClaimRefClearing ==
    [][\A v \in PVNames :
          ClaimRefChanged(v) =>
             /\ AllowRebinding
             /\ pvols[v].claimRef.set
             /\ ~pvols'[v].claimRef.set
             /\ \E i \in DOMAIN pvs : pvs[i].name = v
             /\ pc = "recycle" /\ pending = {}
             /\ ~KeptByPass(pvols[v].claimRef.name)]_vars

\* A step of the pass.
PassStep == passVars' # passVars

\* C23: a claim delete, the Pod delete and the Retain patch take effect
\* only when the live object is at the version of the pass's snapshot; when
\* another actor changed the object after the snapshot the call deletes
\* nothing and the pass returns an error.
C23_Preconditions ==
    [][PassStep =>
         /\ \A c \in ClaimNames :
               pvcs'[c] # pvcs[c] => c \in DOMAIN pvcByKey /\ pvcs[c] = pvcByKey[c]
         /\ pod' # pod => pod = podSnap
         /\ \A v \in PVNames :
               pvols'[v].reclaim # pvols[v].reclaim =>
                  \E i \in DOMAIN pvs : pvs[i].name = v /\ pvs[i].rv = pvols[v].rv
         /\ (pc = "deletePod" /\ missingPVCs(pvcByKey) /\ pod # podSnap) =>
               pod' = pod /\ pc' = "done" /\ result'.err # ""
         /\ (pc = "deletePVC" /\ pc' = "done") =>
               pvcs' = pvcs /\ result'.err # ""
         /\ (pc = "retain" /\ pc' = "done") =>
               pvols' = pvols /\ result'.err # ""]_vars

\* The Pod was scheduled after the pass fetched it: the delete was refused.
C23_Witness ==
    /\ pc = "done"
    /\ result.err = "conflict"
    /\ pod.exists
    /\ pod.rv # podSnap.rv
    /\ missingPVCs(pvcByKey)

\* The pass is past its Retain step.
PastRetain == pc \in {"deletePVC", "recycle", "deletePod"}

\* C24: once the Retain step of a pass has completed without error every
\* Volume kept by the filter has the reclaim policy Retain in the pass's
\* view; a Volume that already had Retain receives no write in the step,
\* and the step changes nothing of a Volume but its reclaim policy.
C24_RetainStep ==
    [][/\ PastRetain' => \A i \in DOMAIN pvs' : pvs'[i].reclaim = Retain
       /\ (pc = "retain" /\ PassStep) =>
            /\ UNCHANGED <<pod, pvcs>>
            /\ pvs[idx].reclaim = Retain => pvols' = pvols /\ pvs' = pvs /\ writes' = writes
            /\ \A v \in PVNames :
                  pvols'[v] # pvols[v] =>
                     /\ v = pvs[idx].name
                     /\ pvols[v].reclaim # Retain
                     /\ pvols'[v] = [pvols[v] EXCEPT !.reclaim = Retain, !.rv = @ + 1]
            /\ \A i \in DOMAIN pvs :
                  pvs'[i] # pvs[i] =>
                     i = idx /\ pvs'[i] = [pvs[i] EXCEPT !.reclaim = Retain, !.rv = @ + 1]]_vars

\* A pass past its Retain step that patched one of two kept Volumes and
\* left alone the one that already had Retain.
C24_Witness ==
    /\ PastRetain
    /\ Len(pvs) = 2
    /\ Cardinality(Ops("patchRetain")) = 1

\* C25: the policy-violation error of the recycle step is unreachable:
\* every Volume handed to maybeRecyclePersistentVolume has local or
\* host-path backing.
C25_NoPolicyViolation ==
    /\ result.err # "policy"
    /\ \A i \in DOMAIN pvs : pvs[i].hostPath \/ pvs[i].local

\* A pass that recycled its Volumes while the store held a Volume bound to
\* a candidate claim, pinned to a node and backed by neither.
C25_Witness ==
    /\ pc = "deletePod"
    /\ pvs # <<>>
    /\ \E v \in PVNames :
          /\ pvols[v].claimRef.set
          /\ pvols[v].claimRef.namespace = Namespace
          /\ pvols[v].claimRef.name \in Candidates
          /\ pvols[v].nodeAffinity
          /\ ~pvols[v].hostPath /\ ~pvols[v].local

(***************************************************************************)
(* Properties of the skip of the collector.                                *)
(***************************************************************************)
\* The pass under way has rendered for a cluster whose observed generation
\* was its generation when the pass read it.
GenerationsEqual ==
    /\ spc \notin {"idle", "reconciled"}
    /\ hist.readiness
    /\ rp.exists
    /\ ~rp.useFlux
    /\ rp.generation = hist.start

\* The collector has done nothing in the pass under way: no kind listed,
\* no object kept for deletion, no object deleted.
CollectorIdle ==
    /\ spc \notin {"gcList", "gcDelete"}
    /\ types = Types
    /\ toDelete = <<>>
    /\ hist.gc = <<>>
    /\ ~hist.failed

\* C26 as stated: a pass whose observed generation equals its generation
\* when the apply loop finishes skips the collector, whatever the generation.
C26_SkipWhateverGeneration == GenerationsEqual => CollectorIdle

\* C26: a pass whose observed generation equals its generation, and is not
\* 0, when the apply loop finishes skips the collector: no kind is listed
\* and no object is deleted.
C26_SkipUnlessZero == (GenerationsEqual /\ rp.generation # 0) => CollectorIdle

\* A pass that applied its objects for an observed generation that is not 0
\* and went on to the status.
C26_Witness ==
    /\ GenerationsEqual
    /\ rp.generation # 0
    /\ created # {}
    /\ objs = <<>>
    /\ spc = "patchStatus"

\* The objects reconcileDefluxGC would delete from store after a pass that
\* applied the keys of applied: the listed objects of every known kind that
\* the collector keeps.
WouldCollect(store, applied) ==
    {k \in Keys : \E i \in DOMAIN Types :
                     /\ Types[i] \in KnownKinds
                     /\ Listed(k, store[k], Types[i])
                     /\ Collects(k, store[k], applied)}

\* The store after reconcileDefluxGC has run with no failure.
AfterGC(store, applied) ==
    [k \in Keys |-> IF k \in WouldCollect(store, applied) THEN NoObject ELSE store[k]]

\* The pass under way rendered, finished its apply loop and skipped the
\* collector because its generation was observed.
SkippedGC ==
    /\ GenerationsEqual
    /\ SkipsGC([rp EXCEPT !.status.observedGeneration = hist.start])
    /\ rp.chartVersion = "" \/ rp.chartVersion = PinnedChartVersion
    /\ spc \in {"getLatest", "patchStatus"}

\* C27: skipping the collector is only an optimization: in a pass that
\* skips it because the generations are equal, the collector would delete
\* nothing, so the store is the same with and without the skip.
C27_SkipIsOptimization ==
    SkippedGC => /\ WouldCollect(objects, created) = {}
                 /\ AfterGC(objects, created) = objects

\* A pass that skips the collector at a generation the cluster reached by
\* an edit of its spec, after it applied its objects, while the store holds
\* a labelled object it did not apply.
C27_Witness ==
    /\ SkippedGC
    /\ rp.generation = 2
    /\ created # {}
    /\ \E k \in Keys \ created : Listed(k, objects[k], k.kind)

(***************************************************************************)
(* Properties of the readiness of the release.                             *)
(***************************************************************************)
\* C28: the release-ready flag a pass records equals (generation =
\* observedGeneration) and (Ready or Remediated) of the release it applied
\* when the release is not suspended, and TRUE when it is suspended.
C28_ReleaseReadiness ==
    hist.seen.releaseSeen =>
        LET hr == hist.seen.release
        IN  rp.status.helmReleaseReady =
                IF hist.seen.suspend THEN TRUE
                ELSE /\ hr.generation = hr.observedGeneration
                     /\ hr.ready \/ hr.remediated

\* A pass under Flux that recorded a release as ready on its Remediated
\* condition alone.
C28_Witness ==
    /\ hist.seen.releaseSeen
    /\ ~hist.seen.suspend
    /\ hist.seen.release = FluxStatus(2, 2, FALSE, TRUE)
    /\ rp.status.helmReleaseReady
    /\ spc = "needsDecommission"

(***************************************************************************)
(* Properties of the errors of the collector's List.                       *)
(***************************************************************************)
\* C29: in the collector's enumeration a kind the store does not know is
\* skipped: it adds nothing to delete, the enumeration goes on and the pass
\* does not fail on it; any other error of a List ends the collector with
\* that error before any object is deleted.
C29_ListErrors ==
    /\ spc = "gcList" =>
          /\ sresult = NoResult
          /\ hist.gc = <<>> /\ ~hist.failed
          /\ \A i \in DOMAIN toDelete : toDelete[i].kind \in KnownKinds
    /\ (spc = "done" /\ sresult.err = "nomatch") => objs # <<>> /\ types = Types
    /\ (spc = "done" /\ sresult.err = "transient" /\ ~hist.sync) =>
          hist.gc = <<>> /\ ~hist.failed

\* A pass whose collector met a kind the store does not know, went on to
\* the next kind, deleted what it found there and returned no error.
C29_Witness ==
    /\ ListError(Types[1]) = "nomatch"
    /\ spc = "done"
    /\ sresult = Ok
    /\ types = <<>>
    /\ hist.gc # <<>>

(***************************************************************************)
(* Properties of the reads that find nothing.                              *)
(***************************************************************************)
\* The errors a pass can return for a reason other than a missing object.
OtherErrors == {"", "transient"}

\* A remediation pass whose Get of the Pod did not fail found no Pod.
PodNotFound == pc = "done" /\ failed.call # "getPod" /\ ~podSnap.exists

\* A sync pass that holds no cluster for a cluster the store does not hold:
\* its Get found none, or failed otherwise.
ClusterNotFound == spc = "done" /\ ~rp.exists /\ ~cluster.exists

\* C30: not-found is success at the reads of a pass. A remediation pass
\* whose Pod is not found, a sync pass whose cluster is not found and a
\* deletion pass whose release is not found return no error for it and
\* issue no delete or patch for the missing object; a candidate claim that
\* is not found stays in the map as a missing entry and raises no error.
C30_NotFoundIsSuccess ==
    /\ PodNotFound => result = Ok /\ writes = <<>>
    /\ pc = "listPVs" =>
          /\ result = NoResult
          /\ DOMAIN pvcByKey = Candidates
          /\ \A c \in fetchMissing : ~pvcByKey[c].present
    /\ ClusterNotFound =>
          /\ sresult.err \in OtherErrors
          /\ sresult.err = "" => sresult = Ok
          /\ hist.removed = "" /\ ~hist.patched /\ ~hist.deleteIssued
    /\ hist.sawAbsent =>
          /\ spc = "done" => sresult.err \in OtherErrors
          /\ spc # "done" => sresult = NoResult
          /\ ~hist.deleteIssued
          /\ ~helmRelease.exists
          /\ rp.status.helmRelease = ""

\* A remediation pass that found one of its claims missing and goes on to
\* list the Volumes, after a sync pass found no cluster.
C30_Witness ==
    /\ pc = "listPVs"
    /\ fetchMissing # {}
    /\ fetchMissing # Candidates
    /\ ClusterNotFound
    /\ sresult = Ok

(***************************************************************************)
(* Properties of the render and of the apply loop.                         *)
(***************************************************************************)
\* The pass under way reached reconcileDefluxed with a chart reference that
\* makes it render.
Renders ==
    /\ spc \notin {"idle", "reconciled"}
    /\ hist.readiness
    /\ rp.exists
    /\ ~rp.useFlux
    /\ rp.chartVersion = "" \/ rp.chartVersion = PinnedChartVersion

\* C31: a pass whose render returns an error returns that error at once: it
\* applies no child object, runs no collection, does not patch the status
\* and leaves the observed generation as it found it.
C31_RenderFailureAborts ==
    /\ (Renders /\ Render(rp.values).err # "") =>
          /\ spc = "done"
          /\ sresult.err = RenderError
    /\ (spc = "done" /\ sresult.err = RenderError) =>
          /\ created = {} /\ objs = <<>>
          /\ types = Types /\ toDelete = <<>> /\ hist.gc = <<>> /\ ~hist.failed
          /\ ~hist.patched /\ ~hist.sync
          /\ ~Observed

\* A pass returned the error of the render for a cluster whose generation
\* is not the observed one.
C31_Witness ==
    /\ Renders
    /\ spc = "done"
    /\ sresult.err = RenderError
    /\ cluster.generation # cluster.status.observedGeneration

\* The key of the object the apply loop makes of a rendered object.
StampedKey(obj) == Key(Stamp(obj).kind, Stamp(obj).namespace, Stamp(obj).name)

\* The rendered objects of the pass under way that carry no hook annotation.
ToApply ==
    LET os == Render(rp.values).objs
    IN  {os[i] : i \in {j \in DOMAIN os : ~os[j].hook}}

\* C32: every object the apply loop applies is in the cluster's namespace,
\* is handed over with one owner reference, the cluster's, and with both
\* labels of the release, and is added to the expected set; a rendered
\* object with the hook annotation is neither applied nor expected.
C32_ApplyLoop ==
    Renders =>
        /\ \A i \in DOMAIN objs :
              LET o == Stamp(objs[i])
              IN  /\ o.namespace = Namespace
                  /\ o.owners = {ClusterUID}
                  /\ o.relName = ReleaseName /\ o.relNamespace = Namespace
        /\ spc = "apply" => ~Head(objs).hook
        /\ created \subseteq {StampedKey(o) : o \in ToApply}
        /\ \A o \in ToApply :
              LET k == StampedKey(o)
              IN  \/ /\ k \in created
                     /\ k.namespace = Namespace
                     /\ objects[k].exists
                     /\ objects[k].relName = ReleaseName
                     /\ objects[k].relNamespace = Namespace
                     /\ ClusterUID \in objects[k].owners
                  \/ /\ k \notin created
                     /\ \/ \E i \in DOMAIN objs : objs[i] = o
                        \/ spc = "done" /\ Failed
        /\ spc \in {"gcList", "gcDelete", "getLatest", "patchStatus"} =>
              created = {StampedKey(o) : o \in ToApply}

\* A pass applied every object it rendered, among them one the chart had
\* put in another namespace, and skipped the hook rendered between them.
C32_Witness ==
    /\ Renders
    /\ spc = "gcList"
    /\ Cardinality(created) = 2
    /\ \E o \in ToApply : o.namespace = OtherNamespace /\ StampedKey(o) \in created
    /\ \E i \in DOMAIN Render(rp.values).objs : Render(rp.values).objs[i].hook

\* The apply loop of the pass under way stopped on a failed apply: an
\* object it had yet to apply is left.
ApplyFailed == Renders /\ spc = "done" /\ objs # <<>>

\* C33: the collector never runs against a partial expected set: a pass
\* whose apply fails returns the error at once, lists no kind and deletes
\* nothing, and the collector only runs once every rendered object that is
\* no hook has been applied.
C33_NoGCAfterFailedApply ==
    /\ ApplyFailed =>
          /\ Failed
          /\ types = Types /\ toDelete = <<>> /\ hist.gc = <<>> /\ ~hist.failed
          /\ ~hist.sync /\ ~hist.patched
    /\ (spc \in {"gcList", "gcDelete"} \/ hist.gc # <<>>) =>
          /\ objs = <<>>
          /\ created = {StampedKey(o) : o \in ToApply}

\* A pass whose second apply failed while the store held an object the
\* collector would have deleted and an earlier pass had applied the object
\* that was not applied this time.
C33_Witness ==
    /\ ApplyFailed
    /\ created # {}
    /\ \E k \in Keys : /\ Listed(k, objects[k], k.kind)
                       /\ k \notin created
                       /\ isOwned(objects[k])
                       /\ \E i \in DOMAIN objs : StampedKey(objs[i]) = k

(***************************************************************************)
(* Properties of the collection of orphans.                                *)
(***************************************************************************)
\* The cluster renders, and renders without error, at a generation that is
\* not observed yet.
RendersAnew ==
    /\ cluster.exists
    /\ ~cluster.useFlux
    /\ Render(cluster.values).err = ""
    /\ cluster.generation # cluster.status.observedGeneration

\* An object the last successful pass applied, that the store holds with
\* the labels of the release and the cluster as an owner.
AppliedEarlier(k) ==
    /\ lastApplied.valid
    /\ k \in lastApplied.keys
    /\ Listed(k, objects[k], k.kind)
    /\ isOwned(objects[k])

\* The keys some values of the cluster render: the keys a pass can apply.
Renderable == UNION {RenderedKeys(v) : v \in Values}

\* Such an object that the cluster no longer renders at its new generation.
Orphan(k) == RendersAnew /\ AppliedEarlier(k) /\ k \notin RenderedKeys(cluster.values)

\* C34: an object applied and owned by an earlier pass that the cluster no
\* longer renders after a change of generation is deleted by some pass,
\* unless the user makes the cluster render it again or fail to render; it
\* is gone by the time the new generation is observed; and a pass in which
\* a delete of the collector failed does not advance the observed generation.
C34_OrphansCollected ==
    /\ \A k \in Renderable :
          Orphan(k) ~> \/ ~objects[k].exists
                       \/ k \in RenderedKeys(cluster.values)
                       \/ Render(cluster.values).err # ""
    /\ [](\A k \in Keys :
            (/\ cluster.exists /\ ~cluster.useFlux /\ Render(cluster.values).err = ""
             /\ cluster.generation = cluster.status.observedGeneration
             /\ AppliedEarlier(k))
                => k \in RenderedKeys(cluster.values))
    /\ []((spc # "idle" /\ hist.failed) => ~hist.patched /\ ~Observed)

\* The user has changed the values and the store holds an object of the
\* last pass that is rendered no more, after a pass whose collector failed
\* to delete it.
C34_Witness ==
    /\ \E k \in Keys : Orphan(k)
    /\ faults > 0
    /\ spc = "idle"
    /\ cluster.generation = 2

\* The objects the collector of the pass under way identified and has not
\* deleted: the ones it has yet to try and the ones whose delete failed.
LeftToCollect == WouldCollect(objects, created)

\* C35: a failed delete does not stop the sweep of the collector: the pass
\* goes on to try every other object it identified, so that the objects
\* left are the ones whose delete failed, and then returns an error for
\* the failures.
C35_SweepGoesOn ==
    /\ spc = "gcDelete" =>
          /\ sresult = NoResult
          /\ Cardinality(LeftToCollect) = errs + Len(toDelete)
          /\ hist.failed <=> errs > 0
    /\ (spc = "done" /\ hist.failed) =>
          /\ sresult.err = "gc"
          /\ toDelete = <<>>
          /\ Cardinality(LeftToCollect) = errs
          /\ ~hist.patched

\* A pass whose first delete failed and that goes on to the delete of the
\* other object it identified.
C35_Witness ==
    /\ spc = "gcDelete"
    /\ hist.failed
    /\ errs = 1
    /\ hist.gc = <<>>
    /\ Len(toDelete) = 1
    /\ objects[Head(toDelete)].exists

(***************************************************************************)
(* Properties of the passes of unmanaged and of managed clusters.          *)
(***************************************************************************)
\* The cluster the pass under way was given by its Get is not under deletion
\* and its managed annotation is "false".
ReadUnmanaged ==
    /\ spc # "idle"
    /\ rp.exists
    /\ hist.unmanaged

\* C36: the pass of a cluster that is not under deletion and is marked
\* managed = "false" applies no repository, release or child object,
\* deletes nothing and does not patch the status; its only write is the
\* update that removes the finalizer, issued when the cluster carries it.
C36_UnmanagedLeftAlone ==
    ReadUnmanaged =>
        /\ spc \in {"unmanage", "done"}
        /\ ~rp.deleting /\ rp.managed = NotManaged
        /\ ~hist.seen.repoSeen /\ ~hist.seen.releaseSeen
        /\ created = {} /\ objs = <<>>
        /\ types = Types /\ toDelete = <<>> /\ hist.gc = <<>> /\ ~hist.failed
        /\ ~hist.deleteIssued
        /\ ~hist.patched /\ ~hist.readiness
        /\ hist.removed \in {"", "unmanaged"}
        /\ spc = "unmanage" => FinalizerKey \in rp.finalizers /\ hist.removed = ""
        /\ (spc = "done" /\ sresult = Ok) =>
              /\ FinalizerKey \notin rp.finalizers
              /\ hist.quiet => cluster.status = rp.status

\* The pass of an unmanaged cluster that carried the finalizer has removed
\* it, while the store holds the repository, the release and the children
\* an earlier pass applied.
C36_Witness ==
    /\ ReadUnmanaged
    /\ spc = "done"
    /\ hist.removed = "unmanaged"
    /\ helmRepository
    /\ helmRelease.exists
    /\ lastApplied.valid /\ lastApplied.keys # {}
    /\ \A k \in lastApplied.keys : objects[k].exists

\* The pass under way applied the repository, the release or a child.
AppliedSomething ==
    \/ hist.seen.repoSeen
    \/ hist.seen.releaseSeen
    \/ hist.readiness
    \/ created # {}

\* The store holds the cluster with the operator's finalizer.
FinalizerInStore == cluster.exists /\ FinalizerKey \in cluster.finalizers

\* The pass ended at the patch that adds the finalizer: it holds a managed
\* cluster that is not under deletion and lacks the finalizer.
AddFinalizerFailed ==
    /\ spc = "done"
    /\ rp.exists
    /\ ~rp.deleting
    /\ rp.managed # NotManaged
    /\ ~rp.decommission
    /\ FinalizerKey \notin rp.finalizers

\* C37: the store holds the cluster with the operator's finalizer whenever
\* a pass is about to apply the repository, the release or a child, and
\* for the rest of a pass that applied one; a pass whose patch that adds the
\* finalizer failed returns the error and applied nothing.
C37_FinalizerBeforeChildren ==
    /\ spc \in {"applyRepository", "applyRelease", "apply"} =>
          FinalizerInStore /\ FinalizerKey \in rp.finalizers
    /\ (spc # "idle" /\ AppliedSomething) => FinalizerInStore
    /\ AddFinalizerFailed =>
          /\ Failed
          /\ ~AppliedSomething
          /\ hist.gc = <<>> /\ ~hist.failed /\ ~hist.patched

\* The first pass of a cluster is about to apply its first child: the
\* repository and the release were applied and the store holds the cluster
\* with the finalizer.
C37_Witness ==
    /\ spc = "apply"
    /\ created = {}
    /\ hist.readiness
    /\ helmRepository /\ helmRelease.exists
    /\ ~lastApplied.valid
    /\ FinalizerInStore

\* A cluster that asks, with Flux disabled, for a chart version that is
\* neither empty nor the pinned one.
UnsupportedChart(r) ==
    /\ r.exists
    /\ ~r.useFlux
    /\ r.chartVersion # ""
    /\ r.chartVersion # PinnedChartVersion

\* The pass under way reached reconcileDefluxed with such a cluster.
Unsupported ==
    /\ spc \notin {"idle", "reconciled"}
    /\ hist.readiness
    /\ UnsupportedChart(rp)

\* C38: with Flux disabled and a chart version that is neither empty nor
\* the pinned one, reconcileDefluxed applies no child and runs no
\* collection, marks the cluster not ready with ChartRefUnsupported and
\* returns no error: the pass goes on to patch the status; once patched it
\* returns a result that asks for no retry. No child of such a cluster
\* changes, whatever the number of passes.
C38_UnsupportedChartVersion ==
    /\ Unsupported =>
          /\ spc \in {"getLatest", "patchStatus", "done"}
          /\ hist.sync
          /\ created = {} /\ objs = <<>>
          /\ types = Types /\ toDelete = <<>> /\ hist.gc = <<>> /\ ~hist.failed
          /\ rp.status.condition = "ChartRefUnsupported"
          /\ spc = "done" => (Failed <=> ~hist.patched)
          /\ Failed => sresult.err \in {"transient", "notfound"}
    /\ (Unsupported /\ hist.patched) =>
          /\ sresult = Ok
          /\ ~sresult.requeue /\ sresult.requeueAfter = 0
          /\ hist.quiet =>
                /\ cluster.status.condition = "ChartRefUnsupported"
                /\ cluster.status.observedGeneration = cluster.generation
    /\ UnsupportedChart(cluster) => objects = InitObjects

\* A pass of a cluster whose spec was edited and whose chart version is
\* unsupported has patched the status: not ready with ChartRefUnsupported,
\* the generation observed, no child written.
C38_Witness ==
    /\ Unsupported
    /\ spc = "done"
    /\ hist.patched
    /\ cluster.generation > 0
    /\ cluster.status.condition = "ChartRefUnsupported"
    /\ cluster.status.observedGeneration = cluster.generation
    /\ objects = InitObjects

\* The reasons reconcile gives when it marks the cluster not ready.
NotReadyReasons == {"ArtifactFailed", "RedpandaPodsNotReady", "ConsolePodsNotReady"}

\* The readiness step of the pass under way returned no error and marked
\* the cluster not ready.
ReturnedNotReady ==
    /\ spc # "idle"
    /\ rp.exists
    /\ spc = "reconciled" \/ hist.readiness
    /\ rp.status.condition \in NotReadyReasons

\* C39: a pass whose readiness step marks the cluster not ready without an
\* error goes on with the apply loop and the collector: when it ends with
\* no error every rendered object that is no hook was applied, the
\* collector ran through its kinds unless the generation was observed, and
\* the status was patched with the mark and with the generation observed.
\* The release is not applied in a pass that found the repository not ready.
C39_NotReadyIsNoFailure ==
    /\ (ReturnedNotReady /\ spc = "reconciled") => sresult = NoResult
    /\ (ReturnedNotReady /\ Renders /\ spc \in {"getLatest", "patchStatus", "done"}
            /\ ~Failed) =>
          /\ created = {StampedKey(o) : o \in ToApply}
          /\ \/ types = <<>>
             \/ SkipsGC([rp EXCEPT !.status.observedGeneration = hist.start])
    /\ (ReturnedNotReady /\ spc = "done") => (Failed <=> ~hist.patched)
    /\ (ReturnedNotReady /\ hist.patched) =>
          /\ sresult = Ok
          /\ rp.status.observedGeneration = rp.generation
          /\ hist.quiet =>
                /\ cluster.status.condition \in NotReadyReasons
                /\ cluster.status.observedGeneration = cluster.generation
    /\ spc \in {"applyRelease", "needsDecommission"} => rp.status.helmRepositoryReady
    /\ hist.seen.releaseSeen => rp.status.helmRepositoryReady
    /\ (spc = "reconciled" /\ ~rp.status.helmRepositoryReady) =>
          /\ hist.seen.repoSeen
          /\ ~hist.seen.releaseSeen
          /\ rp.status.condition = "ArtifactFailed"

\* A pass that found no StatefulSet has applied the children and patched the
\* status: the cluster is not ready and its generation, which was not the
\* observed one, is observed.
C39_Witness ==
    /\ ReturnedNotReady
    /\ Renders
    /\ spc = "done"
    /\ hist.patched
    /\ created # {}
    /\ \A k \in created : objects[k].exists
    /\ cluster.status.condition = "RedpandaPodsNotReady"
    /\ hist.start # cluster.generation
    /\ cluster.status.observedGeneration = cluster.generation

====
